---- MODULE Spec2Model ----
(***************************************************************************)
(* Model of the parallel consensus engine of zen-mcp-server:               *)
(* tools/consensus.py (ConsensusTool.execute and the per-model tasks),     *)
(* the conversation store it persists to (utils/conversation_memory) and   *)
(* the server entry point that reconstructs a continued conversation       *)
(* (server.py, handle_conversation_threading).                             *)
(*                                                                         *)
(* Texts are not strings but values that carry their provenance: the text  *)
(* a provider returns for model m in phase p is <<m, p, v>>, v the sample  *)
(* the provider happened to produce.  Prompts are records of their parts,  *)
(* so "text t occurs in prompt p" is a computation over the parts.         *)
(***************************************************************************)
EXTENDS Integers, Sequences, FiniteSets, TLC

Range(s) == {s[i] : i \in 1..Len(s)}

\* ------------------------------------------------------------------ bounds
ModelNames == <<"A", "B", "C", "D", "E", "F">>
Models == Range(ModelNames)
MaxRoster == 3
MaxContRoster == 2
MaxCalls == 2
NSamples == 2

\* ------------------------------------------------------- program constants
SemaphoreSlots == 5
MAX_CONVERSATION_TURNS == 20

None == 0
NoText == <<"none", "none", 0>>
ProviderErrors == {"API key invalid"}

\* ---------------------------------------------------------------- helpers

RECURSIVE SeqsUpTo(_, _)
SeqsUpTo(S, n) ==
    IF n = 0 THEN {<<>>}
    ELSE LET shorter == SeqsUpTo(S, n - 1)
         IN  shorter \cup {Append(s, x) : s \in {t \in shorter : Len(t) = n - 1}, x \in S}

RECURSIVE SetToSortedSeq(_)
SetToSortedSeq(S) ==
    IF S = {} THEN <<>>
    ELSE LET m == CHOOSE x \in S : \A y \in S : x <= y
         IN  <<m>> \o SetToSortedSeq(S \ {m})

Orderings(s) ==
    {[k \in 1..Len(s) |-> s[f[k]]] :
        f \in {g \in [1..Len(s) -> 1..Len(s)] : \A a, b \in 1..Len(s) : a # b => g[a] # g[b]}}

\* What the provider of a sample v reports as usage and what the wall clock
\* measures around the call; distinct per sample so that mixing up fields or
\* phases shows.
SampleInputTokens(v) == 2 * v - 1
SampleOutputTokens(v) == 3 * v - 1
SampleResponseTime(v) == v

VARIABLES
    threads,            \* conversation store: sequence of threads, id = index
    unavailable,        \* models for which get_model_provider raises
    callsMade,          \* execute calls started so far
    pc,                 \* "idle" | "wait_initial" | "wait_refinement" | "returned"
    request,            \* the validated ConsensusRequest of the running call
    initial_prompt,     \* self.initial_prompt
    initial_tasks,      \* one task per roster entry; started: when its call began
    refinement_tasks,   \* one task per refinement coroutine
    sem,                \* holders of _thread_semaphore
    pool,               \* generate calls of live tasks running on a _thread_pool thread
    abandoned,          \* generate calls of cancelled tasks still running on a thread
    sent,               \* every generate request handed to a provider
    ordered_responses,  \* execute's local of the same name
    successful_initial, \* execute's local of the same name
    failed_models,      \* execute's local of the same name
    final_responses,    \* execute's local of the same name
    report,             \* what execute returned
    env,                \* the CONSENSUS_MODEL_TIMEOUT setting of the process
    capabilities,       \* what provider.get_capabilities gives for each model
    timeout_cache,      \* self._timeout_cache of the tool of the running call
    lookups,            \* get_capabilities calls made by the running call, per model
    phase_timeout,      \* the deadline execute computed for the phase it is in
    probe,              \* the last direct call of a timeout method and its result
    store_ok,           \* whether the store takes the turn add_turn is given
    now,                \* the clock: ticks of PhaseBuffer seconds, or hours
    kv,                 \* InMemoryStorage._store: key -> (value, expires_at)
    coros,              \* the coroutines and threads that work on the store
    lock,               \* the holder of the storage's asyncio.Lock, 0 when free
    sync_lock,          \* the holder of the storage's threading.Lock, 0 when free
    running,            \* the coroutine the event loop is in the middle of, or 0
    gen,                \* a generate_content call of the OpenAI-compatible provider
    shared,             \* the attributes of a ConsensusTool shared by several calls
    calls               \* the execute calls that run on the shared tool

\* The state outside a single execute call of a tool of its own.
asideVars == <<kv, coros, lock, sync_lock, running, gen, shared, calls>>

vars == <<threads, unavailable, callsMade, pc, request, initial_prompt,
          initial_tasks, refinement_tasks, sem, pool, abandoned, sent,
          ordered_responses,
          successful_initial, failed_models, final_responses, report,
          env, capabilities, timeout_cache, lookups, phase_timeout, probe,
          store_ok, now, asideVars>>

\* The state of a tool with calls of its own, its store and its providers.
toolVars == <<threads, unavailable, callsMade, pc, request, initial_prompt,
              initial_tasks, refinement_tasks, sem, pool, abandoned, sent,
              ordered_responses,
              successful_initial, failed_models, final_responses, report,
              env, capabilities, timeout_cache, lookups, phase_timeout, probe,
              store_ok>>

\* What no task step touches.
timeoutVars == <<env, capabilities, timeout_cache, lookups, phase_timeout, probe,
                 store_ok, now, asideVars>>

callVars == <<request, initial_prompt, initial_tasks, refinement_tasks,
              ordered_responses, successful_initial, failed_models,
              final_responses, report>>

\* ------------------------------------------------ results of a model task
Roster == request.models

SuccessDict(m, ph, text, v) ==
    [model |-> m, status |-> "success", phase |-> ph, response |-> text,
     error |-> "",
     metadata |-> [input_tokens |-> SampleInputTokens(v),
                   output_tokens |-> SampleOutputTokens(v),
                   response_time |-> SampleResponseTime(v)]]

ErrorDict(m, ph, msg) ==
    [model |-> m, status |-> "error", phase |-> ph, response |-> NoText,
     error |-> msg, metadata |-> [none |-> 0]]

\* The TimeoutError execute builds for a task still pending at the deadline.
PhaseTimeoutError(m) ==
    [model |-> m, status |-> "exception", phase |-> "initial", response |-> NoText,
     error |-> <<"Phase timeout exceeded", m>>, metadata |-> [none |-> 0]]

NoResult == ErrorDict("", "", "")

IsException(r) == r.status = "exception"

NoRequest ==
    [models |-> <<>>, enable_cross_feedback |-> FALSE, continuation_id |-> None,
     prompt |-> [text |-> "", embedded |-> <<>>],
     cross_feedback_prompt |-> "",
     original_user_prompt |-> "absent", size |-> "fits", model |-> ""]

NoReport == [status |-> "none"]

\* ------------------------------------------------------ conversation store
ThreadExists(id) == id \in 1..Len(threads)

\* A turn of a thread.  content is the flattened text of the turn: the
\* answers it quotes; model_metadata carries the structured per-model list
\* and metadata says where the turn's model_metadata holds it:
\*   "none"                     model_metadata is None
\*   "no_consensus_data"        a dict without the key consensus_data
\*   "consensus_data_not_dict"  consensus_data is not a dict
\*   "no_responses"             consensus_data has no key responses
\*   "responses_not_list"       responses is not a list
\*   "dict"                     consensus_data.responses is a list
UserTurn(tool) ==
    [role |-> "user", tool_name |-> tool, model_name |-> "",
     content |-> <<>>, model_metadata |-> <<>>, metadata |-> "none", asked |-> <<>>]

\* An entry of responses that is not a dict.
NotADict == [model |-> "", response |-> NoText, status |-> "not a dict"]

\* add_turn: refuses when the thread is missing or full, appends otherwise.
AddTurnOk(th, id) ==
    /\ id \in 1..Len(th)
    /\ Len(th[id].turns) < MAX_CONVERSATION_TURNS

add_turn(th, id, turn) ==
    IF AddTurnOk(th, id)
    THEN [th EXCEPT ![id].turns = Append(@, turn)]
    ELSE th

\* create_thread: a fresh id and an empty list of turns.
create_thread(th, tool) == Append(th, [tool_name |-> tool, turns |-> <<>>])

\* build_conversation_history: every stored turn's content, in order.
RECURSIVE ConcatContents(_)
ConcatContents(turns) ==
    IF turns = <<>> THEN <<>>
    ELSE turns[1].content \o ConcatContents(Tail(turns))

build_conversation_history(th, id) == ConcatContents(th[id].turns)

\* ------------------------------------------------- history disambiguation
\* dict assignment consensus_responses[model] = content on an insertion
\* ordered dict: a new key goes last, an old key keeps its place.
DictSet(d, m, text) ==
    IF \E k \in 1..Len(d) : d[k].model = m
    THEN [k \in 1..Len(d) |-> IF d[k].model = m THEN [model |-> m, response |-> text] ELSE d[k]]
    ELSE Append(d, [model |-> m, response |-> text])

\* Lines 1040-1048: an entry counts when it is a dict with a model, a
\* response and the status "success".
RECURSIVE ExtractResponses(_, _)
ExtractResponses(responses, d) ==
    IF responses = <<>> THEN d
    ELSE LET r == responses[1]
         IN  ExtractResponses(Tail(responses),
                IF /\ r # NotADict
                   /\ r.model # "" /\ r.response # NoText /\ r.status = "success"
                THEN DictSet(d, r.model, r.response) ELSE d)

\* Lines 1030-1038: the checks a turn passes before its responses are read.
HasResponsesList(t) ==
    /\ t.metadata \notin {"none", "no_consensus_data"}
    /\ t.metadata \notin {"consensus_data_not_dict", "no_responses"}
    /\ t.metadata # "responses_not_list"

\* A variant that reads whatever list of answers a consensus turn carries.
RECURSIVE ExtractTurnsUnchecked(_, _)
ExtractTurnsUnchecked(turns, d) ==
    IF turns = <<>> THEN d
    ELSE LET t == turns[1]
         IN  ExtractTurnsUnchecked(Tail(turns),
                IF t.tool_name = "consensus" /\ t.role = "assistant"
                THEN ExtractResponses(t.model_metadata, d) ELSE d)

RECURSIVE ExtractTurns(_, _)
ExtractTurns(turns, d) ==
    IF turns = <<>> THEN d
    ELSE LET t == turns[1]
         IN  ExtractTurns(Tail(turns),
                IF t.tool_name = "consensus" /\ t.role = "assistant" /\ HasResponsesList(t)
                THEN ExtractResponses(t.model_metadata, d) ELSE d)

_extract_previous_consensus(continuation_id) ==
    IF ~ThreadExists(continuation_id) THEN <<>>
    ELSE ExtractTurns(threads[continuation_id].turns, <<>>)

NoHistory == [frame |-> "none", entries |-> <<>>]

\* A variant that shows a model earlier answers only when it has one itself.
_build_history_own_only(current_model, continuation_id) ==
    LET previous_consensus == _extract_previous_consensus(continuation_id)
    IN  IF \E k \in 1..Len(previous_consensus) : previous_consensus[k].model = current_model
        THEN [frame |-> "own",
              entries |-> SelectSeq(previous_consensus, LAMBDA e : e.model = current_model)]
        ELSE NoHistory

_build_model_specific_history(current_model, continuation_id) ==
    LET previous_consensus == _extract_previous_consensus(continuation_id)
    IN  IF previous_consensus = <<>> THEN NoHistory
        ELSE IF \E k \in 1..Len(previous_consensus) : previous_consensus[k].model = current_model
        THEN [frame |-> "own",
              entries |-> SelectSeq(previous_consensus, LAMBDA e : e.model = current_model)]
        ELSE [frame |-> "all", entries |-> previous_consensus]

\* ------------------------------------------------------------- the prompts
\* The prompt _consult_model assembles: the model-specific history, then the
\* question (self.initial_prompt, which is itself a text with whatever the
\* server embedded in it).
InitialPrompt(history, question) ==
    [kind |-> "initial", template |-> "", history |-> history, question |-> question,
     own |-> NoText, others |-> <<>>]

TruncatedHistory == [frame |-> "truncated", entries |-> <<>>]

\* _validate_token_limit raises for a prompt that is over the limit.  The
\* request's size class says what is too big: "overflow" the question and
\* files alone, "history_overflow" only the prompt with the history in it,
\* "feedback_overflow" only the default feedback prompt, which quotes the
\* question, the model's own answer and the answers of its peers.
Oversize(prompt) ==
    \/ request.size = "overflow"
    \/ request.size = "history_overflow" /\ prompt.history.frame \in {"own", "all"}
    \/ request.size = "feedback_overflow" /\ prompt.kind = "feedback"

\* ------------------------------------------------------ the feedback prompt
\* The parts of a prompt are: the template it is written from (the caller's
\* own text, or "" for the built-in wording), and what is filled in.
\* A variant that fills the question and the answers into a custom template
\* as it does for the built-in one.
_build_cross_feedback_prompt_filled(initial_response, other_responses, custom_prompt) ==
    [kind |-> IF custom_prompt # "" THEN "custom" ELSE "feedback",
     template |-> custom_prompt, history |-> NoHistory,
     question |-> initial_prompt,
     own |-> initial_response.response,
     others |-> [k \in 1..Len(other_responses) |->
                   [model |-> other_responses[k].model,
                    response |-> other_responses[k].response]]]

_build_cross_feedback_prompt(initial_response, other_responses, custom_prompt) ==
    IF custom_prompt # ""
    THEN [kind |-> "custom", template |-> custom_prompt, history |-> NoHistory,
          question |-> [text |-> "", embedded |-> <<>>],
          own |-> NoText, others |-> <<>>]
    ELSE [kind |-> "feedback", template |-> "", history |-> NoHistory,
          question |-> initial_prompt,
          own |-> initial_response.response,
          others |-> [k \in 1..Len(other_responses) |->
                        [model |-> other_responses[k].model,
                         response |-> other_responses[k].response]]]

\* ------------------------------------------------ execute: after phase one
\* A variant that lists the outcomes as the tasks completed: the finished
\* ones first, then the ones cut off by the deadline.
OrderedResponsesByCompletion(tasks) ==
    LET done == SetToSortedSeq({i \in 1..Len(tasks) : tasks[i].state = "done"})
        late == SetToSortedSeq({i \in 1..Len(tasks) : tasks[i].state # "done"})
    IN  [k \in 1..Len(done) |-> tasks[done[k]].result]
        \o [k \in 1..Len(late) |-> PhaseTimeoutError(Roster[late[k]])]

\* Lines 378-390: one entry per task, in task (= roster) order.
OrderedResponses(tasks) ==
    [i \in 1..Len(tasks) |->
        IF tasks[i].state = "done" THEN tasks[i].result
        ELSE PhaseTimeoutError(Roster[i])]

\* Lines 393-411: exceptions become failed_models entries, the rest is
\* "successful".
FailedEntry(i, response) ==
    [model |-> Roster[i], error |-> response.error, phase |-> "initial"]

\* A variant that drops the tasks cut off by the deadline without a trace.
FailedModelsSkipsTimeouts(ordered) == <<>>

FailedModels(ordered) ==
    LET idx == SetToSortedSeq({i \in 1..Len(ordered) : IsException(ordered[i])})
    IN  [k \in 1..Len(idx) |-> FailedEntry(idx[k], ordered[idx[k]])]

SuccessfulInitial(ordered) == SelectSeq(ordered, LAMBDA r : ~IsException(r))

\* A variant that hands every other entry to a model, whatever its status.
OtherResponsesAnyStatus(succ, i) ==
    LET idx == SetToSortedSeq({j \in 1..Len(succ) : j # i})
    IN  [k \in 1..Len(idx) |-> succ[idx[k]]]

\* Lines 418-443: a refinement coroutine for every successful response that
\* has at least one successful peer.
OtherResponses(succ, i) ==
    LET idx == SetToSortedSeq({j \in 1..Len(succ) : j # i /\ succ[j].status = "success"})
    IN  [k \in 1..Len(idx) |-> succ[idx[k]]]

\* A variant that refines a successful response even when it has no peer.
RefinementTasksNoPeerCheck(succ) ==
    LET idx == SetToSortedSeq({i \in 1..Len(succ) :
                   /\ succ[i].status = "success"
                   /\ \E k \in 1..Len(Roster) : Roster[k] = succ[i].model})
    IN  [k \in 1..Len(idx) |->
            [model |-> succ[idx[k]].model,
             initial_response |-> succ[idx[k]],
             other_responses |-> OtherResponses(succ, idx[k]),
             state |-> "created", result |-> NoResult]]

RefinementTasks(succ) ==
    LET idx == SetToSortedSeq({i \in 1..Len(succ) :
                   /\ succ[i].status = "success"
                   /\ \E k \in 1..Len(Roster) : Roster[k] = succ[i].model
                   /\ OtherResponses(succ, i) # <<>>})
    IN  [k \in 1..Len(idx) |->
            [model |-> succ[idx[k]].model,
             initial_response |-> succ[idx[k]],
             other_responses |-> OtherResponses(succ, idx[k]),
             state |-> "created", result |-> NoResult]]

StartsRefinement(succ) ==
    /\ request.enable_cross_feedback
    /\ Len(succ) > 1
    /\ RefinementTasks(succ) # <<>>

\* ------------------------------------------------- execute: final responses
\* Line 485: the dict comprehension keeps, per model name, the last
\* successful entry of refined_responses.
RefinedByModel(refined, m) ==
    LET idx == {k \in 1..Len(refined) : refined[k].status = "success" /\ refined[k].model = m}
    IN  refined[CHOOSE k \in idx : \A j \in idx : j <= k]

HasRefined(refined, m) ==
    \E k \in 1..Len(refined) : refined[k].status = "success" /\ refined[k].model = m

\* A variant whose totals are those of the refinement phase alone.
CombinedMetadataRefinementOnly(initial, refined) ==
    [initial_response_time |-> initial.metadata.response_time,
     refinement_response_time |-> refined.metadata.response_time,
     total_response_time |-> refined.metadata.response_time,
     input_tokens_initial |-> initial.metadata.input_tokens,
     output_tokens_initial |-> initial.metadata.output_tokens,
     input_tokens_refinement |-> refined.metadata.input_tokens,
     output_tokens_refinement |-> refined.metadata.output_tokens,
     total_input_tokens |-> refined.metadata.input_tokens,
     total_output_tokens |-> refined.metadata.output_tokens]

\* Lines 495-515.
CombinedMetadata(initial, refined) ==
    [initial_response_time |-> initial.metadata.response_time,
     refinement_response_time |-> refined.metadata.response_time,
     total_response_time |-> initial.metadata.response_time + refined.metadata.response_time,
     input_tokens_initial |-> initial.metadata.input_tokens,
     output_tokens_initial |-> initial.metadata.output_tokens,
     input_tokens_refinement |-> refined.metadata.input_tokens,
     output_tokens_refinement |-> refined.metadata.output_tokens,
     total_input_tokens |-> initial.metadata.input_tokens + refined.metadata.input_tokens,
     total_output_tokens |-> initial.metadata.output_tokens + refined.metadata.output_tokens]

\* Lines 527-530.
InitialOnlyMetadata(initial) ==
    [input_tokens |-> initial.metadata.input_tokens,
     output_tokens |-> initial.metadata.output_tokens,
     initial_response_time |-> initial.metadata.response_time,
     total_response_time |-> initial.metadata.response_time]

FinalResponse(initial, refined) ==
    IF HasRefined(refined, initial.model)
    THEN [model |-> initial.model, status |-> "success",
          response |-> RefinedByModel(refined, initial.model).response,
          metadata |-> CombinedMetadata(initial, RefinedByModel(refined, initial.model))]
    ELSE [model |-> initial.model, status |-> "success",
          response |-> initial.response,
          metadata |-> InitialOnlyMetadata(initial)]

\* A variant that, once a refinement phase ran, reports only the models whose
\* refinement succeeded.
FinalResponsesRefinedOnly(succ, refined) ==
    LET ok == SelectSeq(succ, LAMBDA r :
                  r.status = "success" /\ (refined = <<>> \/ HasRefined(refined, r.model)))
    IN  [k \in 1..Len(ok) |-> FinalResponse(ok[k], refined)]

\* Lines 488-538.
FinalResponses(succ, refined) ==
    LET ok == SelectSeq(succ, LAMBDA r : r.status = "success")
    IN  [k \in 1..Len(ok) |-> FinalResponse(ok[k], refined)]

\* ------------------------------------------------ execute: report and turn
\* Lines 599-611 and 665-677: the assistant turn of a consensus call.  The
\* field asked is not stored by the code: it remembers the roster of the call
\* for the statements about returning and new models.
ConsensusTurn(final) ==
    [role |-> "assistant", tool_name |-> "consensus", asked |-> Roster,
     model_name |-> "multi", metadata |-> "dict",
     content |-> [k \in 1..Len(final) |->
                    [model |-> final[k].model, response |-> final[k].response]],
     model_metadata |-> [k \in 1..Len(final) |->
                    [model |-> final[k].model, response |-> final[k].response,
                     status |-> final[k].status]]]

NoOffer == [continuation_id |-> None, remaining_turns |-> 0]

\* add_turn for the assistant turn of the call: it returns False and stores
\* nothing when the thread is gone by the time add_turn looks it up or the
\* save raises (conversation_memory_async.py:159-162 and 187-195), which is
\* store_ok = FALSE here.  execute does not read the value add_turn returns.
add_assistant_turn(th, id, turn) ==
    IF store_ok THEN add_turn(th, id, turn) ELSE th

\* Lines 567-684: what the call stores, given the responses it reports.
PersistedThreads(final) ==
    IF Len(final) = 0 THEN threads
    ELSE IF request.continuation_id # None
    THEN IF /\ ThreadExists(request.continuation_id)
            /\ threads[request.continuation_id].turns # <<>>
            /\ Len(threads[request.continuation_id].turns) < MAX_CONVERSATION_TURNS - 1
         THEN add_assistant_turn(threads, request.continuation_id, ConsensusTurn(final))
         ELSE threads
    ELSE LET created == create_thread(threads, "consensus")
             new_thread_id == Len(created)
         IN  add_assistant_turn(add_turn(created, new_thread_id, UserTurn("consensus")),
                                new_thread_id, ConsensusTurn(final))

\* A variant that always hands out the id of the next new thread.
ContinuationOfferNewHandle(final) ==
    IF Len(final) = 0 THEN NoOffer
    ELSE [continuation_id |-> Len(threads) + 1,
          remaining_turns |-> MAX_CONVERSATION_TURNS - 1]

ContinuationOffer(final) ==
    IF Len(final) = 0 THEN NoOffer
    ELSE IF request.continuation_id # None
    THEN IF /\ ThreadExists(request.continuation_id)
            /\ threads[request.continuation_id].turns # <<>>
            /\ Len(threads[request.continuation_id].turns) < MAX_CONVERSATION_TURNS - 1
         THEN [continuation_id |-> request.continuation_id,
               remaining_turns |-> MAX_CONVERSATION_TURNS
                                   - Len(threads[request.continuation_id].turns) - 1]
         ELSE NoOffer
    ELSE [continuation_id |-> Len(threads) + 1,
          remaining_turns |-> MAX_CONVERSATION_TURNS - 1]

\* Lines 541-565 and 686-688.
ResponseData(final, failed, refined) ==
    [status |-> "consensus_complete",
     initial_prompt |-> initial_prompt,
     models_consulted |-> Len(Roster),
     successful_responses |-> Len(final),
     failed_models |-> failed,
     cross_feedback_enabled |-> request.enable_cross_feedback,
     responses |-> final,
     models_with_refinements |-> Len(refined),
     continuation_offer |-> ContinuationOffer(final)]

ErrorResponse(msg) == [status |-> "error", error |-> msg]

\* Lines 481-694: from the final responses to the returned report.
Synthesize(succ, failed, refined) ==
    LET final == FinalResponses(succ, refined)
    IN  /\ final_responses' = final
        /\ report' = ResponseData(final, failed, refined)
        /\ threads' = PersistedThreads(final)
        /\ pc' = "returned"

\* ------------------------------------------------------------ the timeouts
DefaultTimeout == 600
PhaseBuffer == 60

\* The CONSENSUS_MODEL_TIMEOUT setting: unset, a text float() refuses, or a
\* number.
EnvSetting(isSet, numeric, value) == [set |-> isSet, numeric |-> numeric, value |-> value]

\* A variant that takes any number the setting holds.
_get_consensus_timeout_unchecked(e) ==
    IF ~e.set THEN DefaultTimeout
    ELSE IF ~e.numeric THEN DefaultTimeout
    ELSE e.value

\* Lines 217-242.
_get_consensus_timeout(e) ==
    IF ~e.set THEN DefaultTimeout
    ELSE IF ~e.numeric THEN DefaultTimeout
    ELSE IF e.value <= 0 THEN DefaultTimeout
    ELSE e.value

\* What get_capabilities does for a model: it raises, it returns capabilities
\* without a timeout attribute, or capabilities that declare one.
CapRaises == [kind |-> "raises", timeout |-> 0]
CapWithoutTimeout == [kind |-> "absent", timeout |-> 0]
CapDeclares(n) == [kind |-> "declared", timeout |-> n]

\* Lines 261-280: the part of _get_model_timeout behind the cache.
LookupTimeout(m) ==
    IF m \in unavailable THEN _get_consensus_timeout(env)
    ELSE IF capabilities[m].kind = "declared" THEN capabilities[m].timeout
    ELSE _get_consensus_timeout(env)

\* The cache and the lookup counters of a tool that has resolved nothing.
EmptyCache == [m \in {} |-> 0]
NoLookups == [m \in Models |-> 0]

\* A variant in which a call starts with the cache the last call left.
ToolWithOldCache == [cache |-> timeout_cache, lookups |-> NoLookups, timeout |-> 0]

\* Lines 115-120 and 317-319: the tool as execute starts with it.
FreshTool == [cache |-> EmptyCache, lookups |-> NoLookups, timeout |-> 0]

\* _get_model_timeout, lines 244-285, on a tool in state st: the cached value
\* when there is one, else the looked-up value, which it caches.
_get_model_timeout(st, m) ==
    IF m \in DOMAIN st.cache
    THEN [st EXCEPT !.timeout = st.cache[m]]
    ELSE [cache |-> [x \in DOMAIN st.cache \cup {m} |->
                        IF x = m THEN LookupTimeout(m) ELSE st.cache[x]],
          lookups |-> [st.lookups EXCEPT ![m] = @ + (IF m \in unavailable THEN 0 ELSE 1)],
          timeout |-> LookupTimeout(m)]

\* _get_phase_timeout, lines 287-311: the loop, then the buffer.
RECURSIVE MaxModelTimeout(_, _, _)
MaxModelTimeout(model_configs, st, max_model_timeout) ==
    IF model_configs = <<>> THEN [st EXCEPT !.timeout = max_model_timeout]
    ELSE LET after == _get_model_timeout(st, model_configs[1])
         IN  MaxModelTimeout(Tail(model_configs), after,
                IF after.timeout > max_model_timeout THEN after.timeout
                ELSE max_model_timeout)

\* A variant that takes the timeout of the last model of the list.
_get_phase_timeout_of_last(st, model_configs) ==
    LET r == MaxModelTimeout(model_configs, st, 0)
    IN  [r EXCEPT !.timeout =
            (IF model_configs = <<>> THEN 0
             ELSE r.cache[model_configs[Len(model_configs)]]) + PhaseBuffer]

_get_phase_timeout(st, model_configs) ==
    LET r == MaxModelTimeout(model_configs, st, 0)
    IN  [r EXCEPT !.timeout = r.timeout + PhaseBuffer]

\* Lines 452-459: the roster entries whose model has a successful response.
RefinementModelConfigs(succ) ==
    SelectSeq(Roster, LAMBDA m :
        \E k \in 1..Len(succ) : succ[k].status = "success" /\ succ[k].model = m)

NoProbe == [op |-> "none", models |-> <<>>, timeout |-> 0]

\* The settings and capabilities the timeout methods are tried with.
EnvSettings ==
    {EnvSetting(FALSE, FALSE, 0), EnvSetting(TRUE, FALSE, 0), EnvSetting(TRUE, TRUE, 0),
     EnvSetting(TRUE, TRUE, -100), EnvSetting(TRUE, TRUE, 450)}
DeclaredTimeouts == {300, 1800}
Capabilities == {CapRaises, CapWithoutTimeout} \cup {CapDeclares(n) : n \in DeclaredTimeouts}

\* -------------------------------------------------------------- the inputs
Min(a, b) == IF a < b THEN a ELSE b

\* Model names are opaque to the engine, so a first call's rosters are taken
\* up to renaming: the first entry is "A" and every entry is a name already
\* used or the next unused one.  Duplicate entries stay possible, the request
\* validator (lines 95-100) only refuses the empty list.
RECURSIVE CanonicalIdx(_)
CanonicalIdx(n) ==
    IF n = 0 THEN {<<>>}
    ELSE LET shorter == CanonicalIdx(n - 1)
         IN  shorter \cup
             {Append(s, x) : s \in {t \in shorter : Len(t) = n - 1},
                             x \in 1..Min(n, Len(ModelNames))}

IsCanonical(s) ==
    \A i \in 1..Len(s) : \A x \in 1..(s[i] - 1) : \E j \in 1..(i - 1) : s[j] = x

CanonicalRosters(maxLen) ==
    {[i \in 1..Len(s) |-> ModelNames[s[i]]] :
        s \in {t \in CanonicalIdx(maxLen) : t # <<>> /\ IsCanonical(t)}}

\* The rosters of a later call: any names among the first maxLen + 1.
LaterRosters(maxLen) ==
    SeqsUpTo({ModelNames[k] : k \in 1..Min(maxLen + 1, Len(ModelNames))}, maxLen) \ {<<>>}

Rosters(maxLen) == IF callsMade = 0 THEN CanonicalRosters(maxLen) ELSE LaterRosters(maxLen)
Features == {<<FALSE, "">>, <<TRUE, "">>, <<TRUE, "custom">>}

\* model is the argument "model", which the request keeps as an extra field
\* (line 68); the tool does not read it.
MkRequest(models, feat, cont, prompt, original, size, model) ==
    [models |-> models, enable_cross_feedback |-> feat[1],
     cross_feedback_prompt |-> feat[2], continuation_id |-> cont,
     prompt |-> prompt, original_user_prompt |-> original, size |-> size,
     model |-> model]

Sizes(cont) == IF cont = None THEN {"fits", "overflow", "feedback_overflow"}
               ELSE {"fits", "history_overflow", "overflow", "feedback_overflow"}

\* ------------------------------------------------------------ the actions
\* execute, lines 313-368: validate, take the prompt, look the providers up,
\* create one task per roster entry and start waiting for them.
ExecuteBody(req, th) ==
    /\ callsMade' = callsMade + 1
    /\ request' = req
    /\ initial_prompt' =
          IF req.original_user_prompt \notin {"absent", ""}
          THEN [text |-> req.original_user_prompt, embedded |-> <<>>]
          ELSE req.prompt
    /\ threads' = th
    /\ refinement_tasks' = <<>>
    /\ sent' = <<>>
    /\ ordered_responses' = <<>>
    /\ successful_initial' = <<>>
    /\ failed_models' = <<>>
    /\ final_responses' = <<>>
    /\ IF \E i \in 1..Len(req.models) : req.models[i] \in unavailable
       THEN /\ pc' = "returned"
            /\ report' = ErrorResponse("provider lookup")
            /\ initial_tasks' = <<>>
            /\ timeout_cache' = EmptyCache
            /\ lookups' = NoLookups
            /\ phase_timeout' = 0
       ELSE /\ pc' = "wait_initial"
            /\ report' = NoReport
            /\ initial_tasks' = [i \in 1..Len(req.models) |->
                                    [state |-> "created", result |-> NoResult,
                                     started |-> 0]]
            /\ LET resolved == _get_phase_timeout(FreshTool, req.models)
               IN  /\ timeout_cache' = resolved.cache
                   /\ lookups' = resolved.lookups
                   /\ phase_timeout' = resolved.timeout
    /\ UNCHANGED <<unavailable, sem, pool, abandoned, env, capabilities, probe,
                   store_ok, now, asideVars>>

\* A direct call of ConsensusTool.execute; also what the server does for a
\* request without continuation_id (server.py:252-253 returns the arguments
\* unchanged).  A later call continues one of the stored threads: without a
\* continuation_id it would repeat a first call.
Execute(maxCalls, maxLen) ==
    /\ pc \in {"idle", "returned"}
    /\ callsMade < maxCalls
    /\ \E models \in Rosters(maxLen), feat \in Features,
          cont \in (IF callsMade = 0 THEN {None} ELSE 1..Len(threads)) :
          \E size \in Sizes(cont) :
             ExecuteBody(MkRequest(models, feat, cont,
                                   [text |-> "Q", embedded |-> <<>>], "absent", size, ""),
                         threads)

\* A call of execute without continuation_id at any time: a new conversation.
ExecuteNew(maxCalls, rosters, features) ==
    /\ pc \in {"idle", "returned"}
    /\ callsMade < maxCalls
    /\ \E models \in rosters, feat \in features :
          ExecuteBody(MkRequest(models, feat, None,
                                [text |-> "Q", embedded |-> <<>>], "absent", "fits", ""),
                      threads)

\* server.py:279-284: a request that names no model takes the model name of
\* the latest assistant turn that has one and was not written by consensus.
\* A variant that takes it from a consensus turn as well.
RECURSIVE InheritedModelOfAnyTool(_, _)
InheritedModelOfAnyTool(model_from_args, turns) ==
    IF model_from_args # "" \/ turns = <<>> THEN model_from_args
    ELSE LET turn == turns[Len(turns)]
         IN  IF turn.role = "assistant" /\ turn.model_name # ""
             THEN turn.model_name
             ELSE InheritedModelOfAnyTool(model_from_args, SubSeq(turns, 1, Len(turns) - 1))

RECURSIVE InheritedModel(_, _)
InheritedModel(model_from_args, turns) ==
    IF model_from_args # "" \/ turns = <<>> THEN model_from_args
    ELSE LET turn == turns[Len(turns)]
         IN  IF /\ turn.role = "assistant" /\ turn.model_name # ""
                /\ turn.tool_name # "consensus"
             THEN turn.model_name
             ELSE InheritedModel(model_from_args, SubSeq(turns, 1, Len(turns) - 1))

\* handle_conversation_threading (server.py:250-328) for the arguments of a
\* consensus request with a continuation_id, then execute with the enhanced
\* arguments.
ServerBody(models, feat, cont, text, model_from_args) ==
    IF ~ThreadExists(cont)
    THEN /\ callsMade' = callsMade + 1
         /\ pc' = "returned"
         /\ report' = [status |-> "server_error"]
         /\ request' = NoRequest
         /\ initial_prompt' = NoRequest.prompt
         /\ initial_tasks' = <<>>
         /\ refinement_tasks' = <<>>
         /\ sent' = <<>>
         /\ ordered_responses' = <<>>
         /\ successful_initial' = <<>>
         /\ failed_models' = <<>>
         /\ final_responses' = <<>>
         /\ UNCHANGED <<threads, unavailable, sem, pool, abandoned>>
         /\ UNCHANGED timeoutVars
    ELSE \E size \in Sizes(cont) :
         ExecuteBody(
            MkRequest(models, feat, cont,
                      [text |-> text,
                       embedded |-> build_conversation_history(threads, cont)],
                      text, size,
                      InheritedModel(model_from_args, threads[cont].turns)),
            IF text # "" THEN add_turn(threads, cont, UserTurn("")) ELSE threads)

\* server.consensus with a continuation_id and without the argument "model".
ServerConsensus(maxCalls, maxLen) ==
    /\ pc \in {"idle", "returned"}
    /\ callsMade < maxCalls
    /\ \E models \in Rosters(maxLen), feat \in Features,
          cont \in 1..(Len(threads) + 1), text \in {"Q", ""} :
          ServerBody(models, feat, cont, text, "")

\* The same with or without the argument "model".
ServerConsensusWithModel(maxCalls, maxLen, named) ==
    /\ pc \in {"idle", "returned"}
    /\ callsMade < maxCalls
    /\ \E models \in Rosters(maxLen), feat \in Features,
          cont \in 1..(Len(threads) + 1), text \in {"Q", ""},
          model_from_args \in {""} \cup named :
          ServerBody(models, feat, cont, text, model_from_args)

\* No store, no provider call and no shared tool in use.
AsideIdle ==
    /\ kv = <<>>
    /\ coros = <<>>
    /\ lock = 0
    /\ sync_lock = 0
    /\ running = 0
    /\ gen = <<>>
    /\ shared = <<>>
    /\ calls = <<>>

\* A tool that has run no call.
ToolIdle ==
    /\ callsMade = 0
    /\ pc = "idle"
    /\ request = NoRequest
    /\ initial_prompt = NoRequest.prompt
    /\ initial_tasks = <<>>
    /\ refinement_tasks = <<>>
    /\ sem = 0
    /\ pool = {}
    /\ abandoned = 0
    /\ sent = <<>>
    /\ ordered_responses = <<>>
    /\ successful_initial = <<>>
    /\ failed_models = <<>>
    /\ final_responses = <<>>
    /\ report = NoReport
    /\ timeout_cache = EmptyCache
    /\ lookups = NoLookups
    /\ phase_timeout = 0
    /\ probe = NoProbe
    /\ now = 0

\* The state of a process in which no call has been made.
NoCallYet == AsideIdle /\ ToolIdle

\* An empty store, CONSENSUS_MODEL_TIMEOUT unset, and providers whose
\* capabilities declare no timeout.
Init ==
    /\ NoCallYet
    /\ threads = <<>>
    /\ unavailable \in SUBSET {ModelNames[k] : k \in 1..Min(MaxRoster, Len(ModelNames))}
    /\ env = EnvSetting(FALSE, FALSE, 0)
    /\ capabilities = [m \in Models |-> CapWithoutTimeout]
    /\ store_ok = TRUE

\* _consult_model up to its first suspension (lines 711-815): assemble the
\* prompt, check its size, take a semaphore slot and hand the generate call
\* to the thread pool.  The event loop starts the tasks in creation order.
ConsultModel(i) ==
    /\ pc = "wait_initial"
    /\ i \in 1..Len(initial_tasks)
    /\ initial_tasks[i].state = "created"
    /\ \A j \in 1..(i - 1) : initial_tasks[j].state # "created"
    /\ LET model_name == Roster[i]
           model_history ==
              IF request.continuation_id # None
              THEN _build_model_specific_history(model_name, request.continuation_id)
              ELSE NoHistory
           prompt == InitialPrompt(model_history, initial_prompt)
           truncated_prompt == InitialPrompt(TruncatedHistory, initial_prompt)
       IN  IF Oversize(prompt) /\ Oversize(truncated_prompt)
           THEN /\ initial_tasks' = [initial_tasks EXCEPT
                      ![i].state = "done",
                      ![i].result = ErrorDict(model_name, "initial", "Unable to fit prompt")]
                /\ UNCHANGED <<sem, pool, sent>>
           ELSE /\ sem < SemaphoreSlots
                /\ initial_tasks' = [initial_tasks EXCEPT ![i].state = "running",
                                                          ![i].started = now]
                /\ sem' = sem + 1
                /\ pool' = pool \cup {<<"initial", i>>}
                /\ sent' = Append(sent,
                      [phase |-> "initial", index |-> i, model |-> model_name,
                       prompt |-> IF Oversize(prompt) THEN truncated_prompt ELSE prompt])
    /\ UNCHANGED <<threads, unavailable, callsMade, pc, request, initial_prompt,
                   refinement_tasks, abandoned, ordered_responses, successful_initial,
                   failed_models, final_responses, report>>
    /\ UNCHANGED timeoutVars

\* provider.generate_content returns: lines 824-841.
ConsultReturns(i, v) ==
    /\ pc = "wait_initial"
    /\ i \in 1..Len(initial_tasks)
    /\ initial_tasks[i].state = "running"
    /\ initial_tasks' = [initial_tasks EXCEPT
          ![i].state = "done",
          ![i].result = SuccessDict(Roster[i], "initial", <<Roster[i], "initial", v>>, v)]
    /\ sem' = sem - 1
    /\ pool' = pool \ {<<"initial", i>>}
    /\ UNCHANGED <<threads, unavailable, callsMade, pc, request, initial_prompt,
                   refinement_tasks, abandoned, sent, ordered_responses,
                   successful_initial, failed_models, final_responses, report>>
    /\ UNCHANGED timeoutVars

\* A variant in which a model whose call raised is asked again.
ConsultRaisesThenRetries(i, e) ==
    /\ pc = "wait_initial"
    /\ i \in 1..Len(initial_tasks)
    /\ initial_tasks[i].state = "running"
    /\ initial_tasks' = [initial_tasks EXCEPT ![i].state = "created"]
    /\ sem' = sem - 1
    /\ pool' = pool \ {<<"initial", i>>}
    /\ UNCHANGED <<threads, unavailable, callsMade, pc, request, initial_prompt,
                   refinement_tasks, abandoned, sent, ordered_responses,
                   successful_initial, failed_models, final_responses, report>>
    /\ UNCHANGED timeoutVars

\* provider.generate_content raises: lines 843-850.
ConsultRaises(i, e) ==
    /\ pc = "wait_initial"
    /\ i \in 1..Len(initial_tasks)
    /\ initial_tasks[i].state = "running"
    /\ initial_tasks' = [initial_tasks EXCEPT
          ![i].state = "done",
          ![i].result = ErrorDict(Roster[i], "initial", e)]
    /\ sem' = sem - 1
    /\ pool' = pool \ {<<"initial", i>>}
    /\ UNCHANGED <<threads, unavailable, callsMade, pc, request, initial_prompt,
                   refinement_tasks, abandoned, sent, ordered_responses,
                   successful_initial, failed_models, final_responses, report>>
    /\ UNCHANGED timeoutVars

Running(tasks) == {i \in 1..Len(tasks) : tasks[i].state = "running"}

\* A variant that cancels nothing.
CancelPendingNone(tasks) == tasks

CancelPending(tasks) ==
    [i \in 1..Len(tasks) |->
        IF tasks[i].state = "done" THEN tasks[i]
        ELSE [tasks[i] EXCEPT !.state = "cancelled"]]

\* execute from the return of the first asyncio.wait (line 368) to its next
\* suspension: the second asyncio.wait (line 465) or the return (line 694).
\* Cancelled tasks give their semaphore slot back; the threads that run
\* their generate calls go on.
InitialPhaseEnds ==
    LET ordered == OrderedResponses(initial_tasks)
        failed == FailedModels(ordered)
        succ == SuccessfulInitial(ordered)
    IN  /\ initial_tasks' = CancelPending(initial_tasks)
        /\ sem' = sem - Cardinality(Running(initial_tasks))
        /\ abandoned' = abandoned + Cardinality(Running(initial_tasks))
        /\ pool' = {}
        /\ ordered_responses' = ordered
        /\ failed_models' = failed
        /\ successful_initial' = succ
        /\ IF StartsRefinement(succ)
           THEN /\ refinement_tasks' = RefinementTasks(succ)
                /\ pc' = "wait_refinement"
                /\ LET resolved == _get_phase_timeout(
                                       [cache |-> timeout_cache, lookups |-> lookups,
                                        timeout |-> 0],
                                       RefinementModelConfigs(succ))
                   IN  /\ timeout_cache' = resolved.cache
                       /\ lookups' = resolved.lookups
                       /\ phase_timeout' = resolved.timeout
                /\ UNCHANGED <<threads, final_responses, report>>
           ELSE /\ Synthesize(succ, failed, <<>>)
                /\ UNCHANGED <<refinement_tasks, timeout_cache, lookups, phase_timeout>>
        /\ UNCHANGED <<unavailable, callsMade, request, initial_prompt, sent,
                       env, capabilities, probe, store_ok, now, asideVars>>

\* asyncio.wait returns because every task is done.
InitialPhaseCompletes ==
    /\ pc = "wait_initial"
    /\ \A i \in 1..Len(initial_tasks) : initial_tasks[i].state = "done"
    /\ InitialPhaseEnds

\* asyncio.wait returns because phase_timeout elapsed with tasks pending.
InitialPhaseTimesOut ==
    /\ pc = "wait_initial"
    /\ \A i \in 1..Len(initial_tasks) : initial_tasks[i].state # "created"
    /\ Running(initial_tasks) # {}
    /\ InitialPhaseEnds

\* _consult_model_with_feedback up to its suspension (lines 863-905).
ConsultWithFeedback(k) ==
    /\ pc = "wait_refinement"
    /\ k \in 1..Len(refinement_tasks)
    /\ refinement_tasks[k].state = "created"
    /\ \A j \in 1..(k - 1) : refinement_tasks[j].state # "created"
    /\ sem < SemaphoreSlots
    /\ refinement_tasks' = [refinement_tasks EXCEPT ![k].state = "running"]
    /\ sem' = sem + 1
    /\ pool' = pool \cup {<<"refinement", k>>}
    /\ sent' = Append(sent,
          [phase |-> "refinement", index |-> k, model |-> refinement_tasks[k].model,
           prompt |-> _build_cross_feedback_prompt(
                         refinement_tasks[k].initial_response,
                         refinement_tasks[k].other_responses,
                         request.cross_feedback_prompt)])
    /\ UNCHANGED <<threads, unavailable, callsMade, pc, request, initial_prompt,
                   initial_tasks, abandoned, ordered_responses, successful_initial,
                   failed_models, final_responses, report>>
    /\ UNCHANGED timeoutVars

\* Lines 914-930; the refined text is the result's refined_response.
FeedbackReturns(k, v) ==
    /\ pc = "wait_refinement"
    /\ k \in 1..Len(refinement_tasks)
    /\ refinement_tasks[k].state = "running"
    /\ refinement_tasks' = [refinement_tasks EXCEPT
          ![k].state = "done",
          ![k].result = SuccessDict(refinement_tasks[k].model, "refinement",
                                    <<refinement_tasks[k].model, "refinement", v>>, v)]
    /\ sem' = sem - 1
    /\ pool' = pool \ {<<"refinement", k>>}
    /\ UNCHANGED <<threads, unavailable, callsMade, pc, request, initial_prompt,
                   initial_tasks, abandoned, sent, ordered_responses,
                   successful_initial, failed_models, final_responses, report>>
    /\ UNCHANGED timeoutVars

\* Lines 932-939.
FeedbackRaises(k, e) ==
    /\ pc = "wait_refinement"
    /\ k \in 1..Len(refinement_tasks)
    /\ refinement_tasks[k].state = "running"
    /\ refinement_tasks' = [refinement_tasks EXCEPT
          ![k].state = "done",
          ![k].result = ErrorDict(refinement_tasks[k].model, "refinement", e)]
    /\ sem' = sem - 1
    /\ pool' = pool \ {<<"refinement", k>>}
    /\ UNCHANGED <<threads, unavailable, callsMade, pc, request, initial_prompt,
                   initial_tasks, abandoned, sent, ordered_responses,
                   successful_initial, failed_models, final_responses, report>>
    /\ UNCHANGED timeoutVars

\* execute from the return of the second asyncio.wait (line 465) to the end.
\* `done` is a set: the order in which its results are appended is any.
RefinementPhaseEnds ==
    LET doneIdx == SetToSortedSeq({k \in 1..Len(refinement_tasks) :
                                      refinement_tasks[k].state = "done"})
        results == [n \in 1..Len(doneIdx) |-> refinement_tasks[doneIdx[n]].result]
    IN  /\ refinement_tasks' = CancelPending(refinement_tasks)
        /\ sem' = sem - Cardinality(Running(refinement_tasks))
        /\ abandoned' = abandoned + Cardinality(Running(refinement_tasks))
        /\ pool' = {}
        /\ \E refined_responses \in Orderings(results) :
              Synthesize(successful_initial, failed_models, refined_responses)
        /\ UNCHANGED <<unavailable, callsMade, request, initial_prompt, initial_tasks,
                       sent, ordered_responses, successful_initial, failed_models>>
        /\ UNCHANGED timeoutVars

RefinementPhaseCompletes ==
    /\ pc = "wait_refinement"
    /\ \A k \in 1..Len(refinement_tasks) : refinement_tasks[k].state = "done"
    /\ RefinementPhaseEnds

RefinementPhaseTimesOut ==
    /\ pc = "wait_refinement"
    /\ \A k \in 1..Len(refinement_tasks) : refinement_tasks[k].state # "created"
    /\ Running(refinement_tasks) # {}
    /\ RefinementPhaseEnds

\* The thread of a cancelled task finishes its generate call; nobody reads
\* the result.
AbandonedCallEnds ==
    /\ abandoned > 0
    /\ abandoned' = abandoned - 1
    /\ UNCHANGED <<threads, unavailable, callsMade, pc, request, initial_prompt,
                   initial_tasks, refinement_tasks, sem, pool, sent,
                   ordered_responses, successful_initial, failed_models,
                   final_responses, report>>
    /\ UNCHANGED timeoutVars

TaskStep ==
    \/ \E i \in 1..MaxRoster : ConsultModel(i)
    \/ \E i \in 1..MaxRoster, v \in 1..NSamples : ConsultReturns(i, v)
    \/ \E i \in 1..MaxRoster, e \in ProviderErrors : ConsultRaises(i, e)
    \/ InitialPhaseCompletes
    \/ \E k \in 1..MaxRoster : ConsultWithFeedback(k)
    \/ \E k \in 1..MaxRoster, v \in 1..NSamples : FeedbackReturns(k, v)
    \/ \E k \in 1..MaxRoster, e \in ProviderErrors : FeedbackRaises(k, e)
    \/ RefinementPhaseCompletes

\* A phase deadline elapses, and what is left behind by it.
DeadlineStep ==
    \/ InitialPhaseTimesOut
    \/ RefinementPhaseTimesOut
    \/ AbandonedCallEnds

\* One call, rosters of up to MaxRoster entries.
Next ==
    \/ Execute(1, MaxRoster)
    \/ ServerConsensus(1, MaxRoster)
    \/ TaskStep
    \/ DeadlineStep

Spec == Init /\ [][Next]_vars

\* Up to MaxCalls calls one after the other, rosters of up to MaxContRoster
\* entries: the later calls continue the threads the earlier ones left.  No
\* phase deadline elapses in these behaviours (Spec has those).
NextCont ==
    \/ Execute(MaxCalls, MaxContRoster)
    \/ ServerConsensus(MaxCalls, MaxContRoster)
    \/ TaskStep

SpecCont == Init /\ [][NextCont]_vars

\* ----------------------------------------------- long stored conversations
\* A conversation as earlier consensus calls with one model left it: user
\* turns and consensus turns in alternation, n turns in all.
StoredConsensusTurn ==
    [role |-> "assistant", tool_name |-> "consensus", asked |-> <<ModelNames[1]>>,
     model_name |-> "multi", metadata |-> "dict",
     content |-> <<[model |-> ModelNames[1], response |-> <<ModelNames[1], "initial", 1>>]>>,
     model_metadata |-> <<[model |-> ModelNames[1],
                           response |-> <<ModelNames[1], "initial", 1>>,
                           status |-> "success"]>>]

StoredThread(n) ==
    [tool_name |-> "consensus",
     turns |-> [k \in 1..n |-> IF k % 2 = 1 THEN UserTurn("consensus")
                                ELSE StoredConsensusTurn]]

\* How far below MAX_CONVERSATION_TURNS the stored conversations start.
BudgetMargin == 3

InitBudget ==
    /\ NoCallYet
    /\ \E n \in (MAX_CONVERSATION_TURNS - BudgetMargin)..MAX_CONVERSATION_TURNS :
          threads = <<StoredThread(n)>>
    /\ unavailable \in SUBSET {ModelNames[1]}
    /\ env = EnvSetting(FALSE, FALSE, 0)
    /\ capabilities = [m \in Models |-> CapWithoutTimeout]
    /\ store_ok = TRUE

\* Up to MaxCalls calls with one model each, on a store that holds a
\* conversation close to its turn limit.
NextBudget ==
    \/ Execute(MaxCalls, 1)
    \/ ServerConsensus(MaxCalls, 1)
    \/ ConsultModel(1)
    \/ \E v \in 1..NSamples : ConsultReturns(1, v)
    \/ \E e \in ProviderErrors : ConsultRaises(1, e)
    \/ InitialPhaseCompletes

SpecBudget == InitBudget /\ [][NextBudget]_vars

\* The same calls on a store that may refuse the assistant turn.
InitStore ==
    /\ NoCallYet
    /\ \E n \in (MAX_CONVERSATION_TURNS - BudgetMargin)..MAX_CONVERSATION_TURNS :
          threads = <<StoredThread(n)>>
    /\ unavailable \in SUBSET {ModelNames[1]}
    /\ env = EnvSetting(FALSE, FALSE, 0)
    /\ capabilities = [m \in Models |-> CapWithoutTimeout]
    /\ store_ok \in BOOLEAN

SpecStore == InitStore /\ [][NextBudget]_vars

\* ------------------------------------------- incomplete historical turns
\* What an earlier writer may have left in a consensus turn: an answer of
\* model m as this code stores it, and the ways a stored list can fall short.
GoodEntry(m) == [model |-> m, response |-> <<m, "earlier", 1>>, status |-> "success"]

StoredEntries ==
    {<<GoodEntry(ModelNames[1])>>,
     <<NotADict>>,
     <<[GoodEntry(ModelNames[1]) EXCEPT !.model = ""]>>,
     <<[GoodEntry(ModelNames[1]) EXCEPT !.response = NoText]>>,
     <<NotADict, GoodEntry(ModelNames[1])>>}

MetadataShapes ==
    {"none", "no_consensus_data", "consensus_data_not_dict", "no_responses",
     "responses_not_list", "dict"}

HistoricalTurn(shape, entries) ==
    [role |-> "assistant", tool_name |-> "consensus", asked |-> <<ModelNames[1]>>,
     model_name |-> "multi", metadata |-> shape,
     content |-> <<[model |-> ModelNames[1], response |-> <<ModelNames[1], "earlier", 1>>]>>,
     model_metadata |-> entries]

\* Under a shape other than "dict" the answers sit where the code does not
\* look for them.
HistoricalTurns ==
    {HistoricalTurn(shape, <<GoodEntry(ModelNames[1])>>) : shape \in MetadataShapes \ {"dict"}}
    \cup {HistoricalTurn("dict", entries) : entries \in StoredEntries}

InitHistory ==
    /\ NoCallYet
    /\ \E t1, t2 \in HistoricalTurns :
          threads = <<[tool_name |-> "consensus",
                       turns |-> <<UserTurn("consensus"), t1, UserTurn(""), t2>>]>>
    /\ unavailable = {}
    /\ env = EnvSetting(FALSE, FALSE, 0)
    /\ capabilities = [m \in Models |-> CapWithoutTimeout]
    /\ store_ok = TRUE

\* One call through the server that continues the stored conversation.
NextHistory ==
    \/ ServerConsensus(1, MaxContRoster)
    \/ TaskStep

SpecHistory == InitHistory /\ [][NextHistory]_vars

\* ------------------------------------------ conversations of other tools
\* An assistant turn another tool left in a thread, with the model that
\* wrote it when the tool recorded one ("" when it did not).
OtherToolTurn(model_name) ==
    [role |-> "assistant", tool_name |-> "chat", model_name |-> model_name,
     content |-> <<>>, model_metadata |-> <<>>, metadata |-> "none", asked |-> <<>>]

\* The model names other tools recorded, and a name a request may give.
RecordedModels == {"X", "Y"}
NamedModel == "Z"

MaxStoredTurns == 3

StoredTurns ==
    {UserTurn("chat"), StoredConsensusTurn, OtherToolTurn("")}
    \cup {OtherToolTurn(m) : m \in RecordedModels}

InitThreading ==
    /\ NoCallYet
    /\ \E turns \in SeqsUpTo(StoredTurns, MaxStoredTurns) :
          threads = <<[tool_name |-> "chat", turns |-> turns]>>
    /\ unavailable = {}
    /\ env = EnvSetting(FALSE, FALSE, 0)
    /\ capabilities = [m \in Models |-> CapWithoutTimeout]
    /\ store_ok = TRUE

\* One call through the server, with one model, that continues the thread.
NextThreading ==
    \/ ServerConsensusWithModel(1, 1, {NamedModel})
    \/ ConsultModel(1)
    \/ \E v \in 1..NSamples : ConsultReturns(1, v)
    \/ \E e \in ProviderErrors : ConsultRaises(1, e)
    \/ InitialPhaseCompletes

SpecThreading == InitThreading /\ [][NextThreading]_vars

\* ------------------------------------------------- the timeout behaviours
\* The models whose capabilities vary.
TimeoutModels == {ModelNames[k] : k \in 1..Min(MaxContRoster, Len(ModelNames))}

InitTimeouts ==
    /\ NoCallYet
    /\ threads = <<>>
    /\ unavailable \in SUBSET {ModelNames[1]}
    /\ store_ok = TRUE
    /\ env \in EnvSettings
    /\ capabilities \in {c \in [Models -> Capabilities] :
                            \A m \in Models \ TimeoutModels : c[m] = CapWithoutTimeout}

\* tool._get_model_timeout(m) on a new tool, before any call.
GetModelTimeout(m) ==
    /\ pc = "idle"
    /\ probe' = [op |-> "model", models |-> <<m>>,
                 timeout |-> _get_model_timeout(FreshTool, m).timeout]
    /\ UNCHANGED <<threads, unavailable, callsMade, pc, sem, pool, abandoned, sent,
                   env, capabilities, timeout_cache, lookups, phase_timeout,
                   store_ok, now, asideVars>>
    /\ UNCHANGED callVars

\* tool._get_phase_timeout(model_configs) on a new tool, before any call.
GetPhaseTimeout(model_configs) ==
    /\ pc = "idle"
    /\ probe' = [op |-> "phase", models |-> model_configs,
                 timeout |-> _get_phase_timeout(FreshTool, model_configs).timeout]
    /\ UNCHANGED <<threads, unavailable, callsMade, pc, sem, pool, abandoned, sent,
                   env, capabilities, timeout_cache, lookups, phase_timeout,
                   store_ok, now, asideVars>>
    /\ UNCHANGED callVars

\* Between two calls the capabilities a provider reports for a model change;
\* probe keeps the timeout the call before resolved for that model.
Reconfigure(m, c) ==
    /\ pc = "returned"
    /\ callsMade < MaxCalls
    /\ probe = NoProbe
    /\ capabilities[m] # c
    /\ capabilities' = [capabilities EXCEPT ![m] = c]
    /\ probe' = [op |-> "reconfigure", models |-> <<m>>,
                 timeout |-> IF m \in DOMAIN timeout_cache THEN timeout_cache[m] ELSE 0]
    /\ UNCHANGED <<threads, unavailable, callsMade, pc, sem, pool, abandoned, sent,
                   env, timeout_cache, lookups, phase_timeout, store_ok, now, asideVars>>
    /\ UNCHANGED callVars

\* Direct calls of the two timeout methods in a process that makes no
\* consensus call; or up to MaxCalls new conversations with cross-feedback in
\* which every provider call succeeds, the capabilities changing once between
\* two of them.
NextTimeouts ==
    \/ \E m \in TimeoutModels : GetModelTimeout(m)
    \/ \E model_configs \in SeqsUpTo(TimeoutModels, MaxContRoster) :
          GetPhaseTimeout(model_configs)
    \/ \E c \in Capabilities : Reconfigure(ModelNames[1], c)
    \/ /\ probe.op \in {"none", "reconfigure"}
       /\ ExecuteNew(MaxCalls, CanonicalRosters(MaxContRoster), {<<TRUE, "">>})
    \/ \E i \in 1..MaxContRoster : ConsultModel(i)
    \/ \E i \in 1..MaxContRoster, v \in 1..NSamples : ConsultReturns(i, v)
    \/ InitialPhaseCompletes
    \/ \E k \in 1..MaxContRoster : ConsultWithFeedback(k)
    \/ \E k \in 1..MaxContRoster, v \in 1..NSamples : FeedbackReturns(k, v)
    \/ RefinementPhaseCompletes

SpecTimeouts == InitTimeouts /\ [][NextTimeouts]_vars

\* Capabilities whose timeout attribute holds whatever number a provider put
\* there: nothing between get_capabilities and line 275 looks at the value.
AnyDeclaredTimeouts == {-30, 0, 300}
AnyCapabilities == {CapRaises, CapWithoutTimeout}
                      \cup {CapDeclares(n) : n \in AnyDeclaredTimeouts}

InitDeclared ==
    /\ NoCallYet
    /\ threads = <<>>
    /\ unavailable \in SUBSET {ModelNames[1]}
    /\ store_ok = TRUE
    /\ env \in EnvSettings
    /\ capabilities \in {c \in [Models -> AnyCapabilities] :
                            \A m \in Models \ TimeoutModels : c[m] = CapWithoutTimeout}

\* Direct calls of the two timeout methods, or one new conversation without
\* cross-feedback.
NextDeclared ==
    \/ \E m \in TimeoutModels : GetModelTimeout(m)
    \/ \E model_configs \in SeqsUpTo(TimeoutModels, MaxContRoster) :
          GetPhaseTimeout(model_configs)
    \/ /\ probe = NoProbe
       /\ ExecuteNew(1, CanonicalRosters(MaxContRoster), {<<FALSE, "">>})
    \/ \E i \in 1..MaxContRoster : ConsultModel(i)
    \/ \E i \in 1..MaxContRoster, v \in 1..NSamples : ConsultReturns(i, v)
    \/ InitialPhaseCompletes

SpecDeclared == InitDeclared /\ [][NextDeclared]_vars

\* Up to MaxCalls new conversations one after the other, each with a roster
\* of MaxRoster different models and without cross-feedback, in which the
\* phase deadline may elapse: what the calls leave running on the pool.
FullRosters == {r \in CanonicalRosters(MaxRoster) :
                   Len(r) = MaxRoster /\ Cardinality(Range(r)) = MaxRoster}

NextPool ==
    \/ ExecuteNew(MaxCalls, FullRosters, {<<FALSE, "">>})
    \/ \E i \in 1..MaxRoster : ConsultModel(i)
    \/ \E i \in 1..MaxRoster, v \in 1..NSamples : ConsultReturns(i, v)
    \/ \E i \in 1..MaxRoster, e \in ProviderErrors : ConsultRaises(i, e)
    \/ InitialPhaseCompletes
    \/ InitialPhaseTimesOut
    \/ AbandonedCallEnds

SpecPool == Init /\ [][NextPool]_vars

\* ------------------------------------------------------ calls under a clock
\* Time in ticks of PhaseBuffer seconds.
TicksOf(seconds) == seconds \div PhaseBuffer

\* One model more than _thread_semaphore lets call generate_content at a time.
ClockRoster == [i \in 1..(SemaphoreSlots + 1) |-> ModelNames[i]]

\* The deadline of the initial phase of a call that began at tick 0:
\* asyncio.wait(initial_tasks, timeout=phase_timeout), line 368.
PhaseDeadline == TicksOf(phase_timeout)

\* The timeout _consult_model hands to provider.generate_content, line 788.
CallTimeout(i) == TicksOf(timeout_cache[Roster[i]])

\* A tick passes while execute waits.  The event loop starts a task that can
\* take a semaphore slot before any time passes, asyncio.wait returns as
\* soon as every task is done or the deadline is reached, and a provider
\* call ends, with its answer or an error, within the timeout it was given.
Tick ==
    /\ pc = "wait_initial"
    /\ now < PhaseDeadline
    /\ \E i \in 1..Len(initial_tasks) : initial_tasks[i].state # "done"
    /\ ~(sem < SemaphoreSlots /\ \E i \in 1..Len(initial_tasks) :
                                     initial_tasks[i].state = "created")
    /\ \A i \in Running(initial_tasks) : now - initial_tasks[i].started < CallTimeout(i)
    /\ now' = now + 1
    /\ UNCHANGED <<threads, unavailable, callsMade, pc, request, initial_prompt,
                   initial_tasks, refinement_tasks, sem, pool, abandoned, sent,
                   ordered_responses, successful_initial, failed_models,
                   final_responses, report,
                   env, capabilities, timeout_cache, lookups, phase_timeout, probe,
                   store_ok, asideVars>>

\* asyncio.wait returns at the deadline with tasks pending.
InitialPhaseDeadline ==
    /\ now = PhaseDeadline
    /\ InitialPhaseTimesOut

\* One new conversation with ClockRoster, without cross-feedback.
NextClock ==
    \/ ExecuteNew(1, {ClockRoster}, {<<FALSE, "">>})
    \/ \E i \in 1..Len(ClockRoster) : ConsultModel(i)
    \/ \E i \in 1..Len(ClockRoster), v \in 1..NSamples : ConsultReturns(i, v)
    \/ \E i \in 1..Len(ClockRoster), e \in ProviderErrors : ConsultRaises(i, e)
    \/ Tick
    \/ InitialPhaseCompletes
    \/ InitialPhaseDeadline

InitClock ==
    /\ NoCallYet
    /\ threads = <<>>
    /\ unavailable = {}
    /\ env = EnvSetting(FALSE, FALSE, 0)
    /\ capabilities = [m \in Models |-> CapWithoutTimeout]
    /\ store_ok = TRUE

SpecClock == InitClock /\ [][NextClock]_vars

\* ---------------------------------------- conversation memory, async store
\* utils/conversation_memory_async.py on utils/storage_backend_async.py, in
\* one event loop.  The clock counts hours here.
CONVERSATION_TIMEOUT_HOURS == 3
MaxCoros == 3
MaxClock == 5

\* A thread that is stored when the process starts and one that never was.
ThreadKeys == {"stored", "never"}

NoEntry == [present |-> FALSE, value |-> <<>>, expires_at |-> 0]
Entry(value, expires_at) == [present |-> TRUE, value |-> value, expires_at |-> expires_at]

\* InMemoryStorage.get, lines 61-72: the value when the key is there and not
\* expired; an expired entry is deleted.
StorageGet(store, key, t) ==
    IF store[key].present /\ t < store[key].expires_at
    THEN [found |-> TRUE, value |-> store[key].value, store |-> store]
    ELSE IF store[key].present
    THEN [found |-> FALSE, value |-> <<>>, store |-> [store EXCEPT ![key] = NoEntry]]
    ELSE [found |-> FALSE, value |-> <<>>, store |-> store]

\* InMemoryStorage.setex, lines 54-59 and 74-76.
StorageSetex(store, key, ttl, value, t) ==
    [store EXCEPT ![key] = Entry(value, t + ttl)]

\* InMemoryStorage._cleanup_expired, lines 87-96.
CleanupExpiredOf(store, t) ==
    [k \in DOMAIN store |->
        IF store[k].present /\ store[k].expires_at < t THEN NoEntry ELSE store[k]]

\* get_thread, lines 119-138, as a later reader sees the thread now.
get_thread(thread_id) ==
    LET got == StorageGet(kv, thread_id, now)
    IN  [found |-> got.found, turns |-> got.value]

\* A variant of the lock in which every acquire gives the loop away.
AcquireAlwaysSuspends(holder) == TRUE

\* async with self._lock: acquiring an asyncio.Lock suspends the coroutine
\* only when the lock is held.
AcquireSuspends(holder) == holder # 0

\* A variant of the limit check that lets a full thread take one more turn.
AtTurnLimitOffByOne(turns) == Len(turns) > MAX_CONVERSATION_TURNS

\* Lines 164-167.
AtTurnLimit(turns) == Len(turns) >= MAX_CONVERSATION_TURNS

NoCoro == [pc |-> "idle", thread_id |-> "", context |-> <<>>, result |-> FALSE,
           with |-> {}, pos |-> 0, saved_at |-> 0]

Pending(c) == coros[c].pc \in {"scheduled", "saving"}

\* A caller makes a task of add_turn(thread_id, ...); the turn is named after
\* the coroutine.
CallAddTurn(c, thread_id) ==
    /\ coros[c].pc = "idle"
    /\ running = 0
    /\ coros' = [coros EXCEPT ![c] =
                    [NoCoro EXCEPT !.pc = "scheduled", !.thread_id = thread_id,
                                   !.with = {d \in DOMAIN coros : Pending(d)}]]
    /\ UNCHANGED <<kv, lock, sync_lock, running, gen, shared, calls, now>>
    /\ UNCHANGED toolVars

\* add_turn from its start to the setex it awaits, lines 157-188: read the
\* thread, refuse when it is missing or full, append the turn to the copy
\* that was read.  The coroutine keeps the loop unless acquiring the lock
\* suspends it.
AddTurnRead(c) ==
    /\ coros[c].pc = "scheduled"
    /\ running = 0
    /\ lock = 0
    /\ LET got == StorageGet(kv, coros[c].thread_id, now)
       IN  /\ kv' = got.store
           /\ IF ~got.found \/ AtTurnLimit(got.value)
              THEN /\ coros' = [coros EXCEPT ![c].pc = "done", ![c].result = FALSE]
                   /\ running' = 0
              ELSE /\ coros' = [coros EXCEPT ![c].pc = "saving",
                                             ![c].context = Append(got.value, c)]
                   /\ running' = IF AcquireSuspends(lock) THEN 0 ELSE c
    /\ UNCHANGED <<lock, sync_lock, gen, shared, calls, now>>
    /\ UNCHANGED toolVars

\* add_turn, lines 185-191: save the copy with a fresh expiry, return True.
AddTurnSave(c) ==
    /\ coros[c].pc = "saving"
    /\ running = c \/ (running = 0 /\ lock = 0)
    /\ kv' = StorageSetex(kv, coros[c].thread_id, CONVERSATION_TIMEOUT_HOURS,
                          coros[c].context, now)
    /\ coros' = [coros EXCEPT ![c].pc = "done", ![c].result = TRUE,
                              ![c].pos = Len(coros[c].context), ![c].saved_at = now]
    /\ running' = 0
    /\ UNCHANGED <<lock, sync_lock, gen, shared, calls, now>>
    /\ UNCHANGED toolVars

\* A reader's storage.get finds an expired entry and deletes it.
GetExpired(thread_id) ==
    /\ running = 0
    /\ kv' = StorageGet(kv, thread_id, now).store
    /\ kv' # kv
    /\ UNCHANGED <<coros, lock, sync_lock, running, gen, shared, calls, now>>
    /\ UNCHANGED toolVars

\* The cleanup task runs.
CleanupExpired ==
    /\ running = 0
    /\ kv' = CleanupExpiredOf(kv, now)
    /\ kv' # kv
    /\ UNCHANGED <<coros, lock, sync_lock, running, gen, shared, calls, now>>
    /\ UNCHANGED toolVars

\* An hour passes; no coroutine is in the middle of a run.
HourPasses ==
    /\ running = 0
    /\ now < MaxClock
    /\ now' = now + 1
    /\ UNCHANGED <<kv, coros, lock, sync_lock, running, gen, shared, calls>>
    /\ UNCHANGED toolVars

\* A process that runs no consensus call.
NoConsensus ==
    /\ ToolIdle
    /\ threads = <<>>
    /\ unavailable = {}
    /\ env = EnvSetting(FALSE, FALSE, 0)
    /\ capabilities = [m \in Models |-> CapWithoutTimeout]
    /\ store_ok = TRUE

\* A stored thread that is close to its turn limit, written at hour 0.
InitMemory ==
    /\ NoConsensus
    /\ \E n \in (MAX_CONVERSATION_TURNS - BudgetMargin)..MAX_CONVERSATION_TURNS :
          kv = [k \in ThreadKeys |->
                  IF k = "stored"
                  THEN Entry([i \in 1..n |-> 0], CONVERSATION_TIMEOUT_HOURS)
                  ELSE NoEntry]
    /\ coros = [c \in 1..MaxCoros |-> NoCoro]
    /\ lock = 0 /\ sync_lock = 0 /\ running = 0
    /\ gen = <<>> /\ shared = <<>> /\ calls = <<>>

NextMemory ==
    \/ \E c \in 1..MaxCoros, k \in ThreadKeys : CallAddTurn(c, k)
    \/ \E c \in 1..MaxCoros : AddTurnRead(c)
    \/ \E c \in 1..MaxCoros : AddTurnSave(c)
    \/ \E k \in ThreadKeys : GetExpired(k)
    \/ CleanupExpired
    \/ HourPasses

SpecMemory == InitMemory /\ [][NextMemory]_vars

\* ------------------------------------- OpenAI-compatible provider: retries
\* providers/openai_compatible.py, generate_content.
max_retries == 4
retry_delays == <<1, 3, 5, 8>>

\* What client.chat.completions.create raises, by what _is_error_retryable
\* finds in str(error): the text "429", the type and code of the structured
\* error, one of non_retryable_indicators, one of retryable_indicators.
\* kind says what the error is.
ApiError(kind, text, has429, etype, ecode, non_retryable, retryable) ==
    [kind |-> kind, text |-> text, has429 |-> has429, etype |-> etype,
     ecode |-> ecode, non_retryable |-> non_retryable, retryable |-> retryable]

ApiErrors ==
    {ApiError("timeout", "Request timed out.", FALSE, "", "", FALSE, FALSE),
     ApiError("timeout", "httpx.ReadTimeout: read timeout", FALSE, "", "", TRUE, FALSE),
     ApiError("timeout", "Error code: 408", FALSE, "", "", TRUE, FALSE),
     ApiError("auth", "Error code: 401 - invalid api key", FALSE, "", "", FALSE, FALSE),
     ApiError("too_large", "Error code: 429 - type tokens", TRUE, "tokens",
              "rate_limit_exceeded", FALSE, FALSE),
     ApiError("too_large", "Error code: 429 - code context_length_exceeded", TRUE,
              "invalid_request_error", "context_length_exceeded", FALSE, FALSE),
     ApiError("rate_limit", "Error code: 429 - type requests", TRUE, "requests",
              "rate_limit_exceeded", FALSE, FALSE),
     ApiError("connection", "Connection error.", FALSE, "", "", FALSE, TRUE),
     ApiError("server", "Error code: 503 - service unavailable", FALSE, "", "", FALSE, TRUE)}

\* A variant that retries whatever is not a refused 429.
_is_error_retryable_by_default(error) ==
    IF error.has429
    THEN IF error.etype = "tokens" THEN FALSE
         ELSE IF error.ecode \in {"invalid_request_error", "context_length_exceeded"}
         THEN FALSE
         ELSE TRUE
    ELSE TRUE

\* Lines 1088-1192.
_is_error_retryable(error) ==
    IF error.has429
    THEN IF error.etype = "tokens" THEN FALSE
         ELSE IF error.ecode \in {"invalid_request_error", "context_length_exceeded"}
         THEN FALSE
         ELSE TRUE
    ELSE IF error.non_retryable THEN FALSE
    ELSE error.retryable

\* Line 744: actual_attempts.
ActualAttempts(attempt) == attempt + 1

NoGen == [pc |-> "idle", attempt |-> 0, requests |-> 0, errors |-> <<>>,
          slept |-> 0, stated |-> 0]

\* generate_content up to its loop, lines 572-699: a model that is not on
\* the allow-list is refused with a ValueError before any request.
GenerateContent(allowed) ==
    /\ gen.pc = "idle"
    /\ gen' = [gen EXCEPT !.pc = IF allowed THEN "attempting" ELSE "rejected"]
    /\ UNCHANGED <<kv, coros, lock, sync_lock, running, shared, calls, now>>
    /\ UNCHANGED toolVars

\* Lines 701-720: the request of this attempt is answered.
AttemptSucceeds ==
    /\ gen.pc = "attempting"
    /\ gen' = [gen EXCEPT !.pc = "returned", !.requests = @ + 1]
    /\ UNCHANGED <<kv, coros, lock, sync_lock, running, shared, calls, now>>
    /\ UNCHANGED toolVars

\* Lines 722-747: the request of this attempt raises.
AttemptFails(error) ==
    /\ gen.pc = "attempting"
    /\ IF gen.attempt = max_retries - 1 \/ ~_is_error_retryable(error)
       THEN gen' = [gen EXCEPT !.pc = "raised", !.requests = @ + 1,
                               !.errors = Append(@, error),
                               !.stated = ActualAttempts(gen.attempt)]
       ELSE gen' = [gen EXCEPT !.requests = @ + 1, !.errors = Append(@, error),
                               !.slept = @ + retry_delays[gen.attempt + 1],
                               !.attempt = @ + 1]
    /\ UNCHANGED <<kv, coros, lock, sync_lock, running, shared, calls, now>>
    /\ UNCHANGED toolVars

InitRetry ==
    /\ NoConsensus
    /\ kv = <<>> /\ coros = <<>> /\ lock = 0 /\ sync_lock = 0 /\ running = 0
    /\ shared = <<>> /\ calls = <<>>
    /\ gen = NoGen

NextRetry ==
    \/ \E allowed \in BOOLEAN : GenerateContent(allowed)
    \/ AttemptSucceeds
    \/ \E error \in ApiErrors : AttemptFails(error)

SpecRetry == InitRetry /\ [][NextRetry]_vars

\* ------------------------------------------------ the hybrid in-memory store
\* utils/storage_backend_hybrid.py: synchronous accessors and the cleanup
\* thread take _sync_lock, asynchronous accessors take _async_lock.  Threads
\* are switched between any two operations on the dict; the coroutines of the
\* event loop run one at a time.  One key, stored at hour 0 for an hour.
HybridKey == "thread"
StoredFor == 1

\* The accessors: a get on a worker thread, a get_async and a
\* set_with_ttl_async on the event loop, and the cleanup thread.
Accessor(op, flavour) ==
    [op |-> op, flavour |-> flavour, pc |-> "start", seen |-> NoEntry,
     keys |-> {}, result |-> "", failed |-> ""]

Accessors == <<Accessor("get", "sync"), Accessor("get", "async"),
               Accessor("cleanup", "sync"), Accessor("set", "async")>>

HybridVarsOff == <<gen, shared, calls>>

\* The keys of the dict.
StoreKeys(store) == {k \in DOMAIN store : store[k].present}

\* The lock an accessor takes is free.
LockFree(p) == IF coros[p].flavour = "sync" THEN sync_lock = 0 ELSE lock = 0

\* with self._sync_lock: / async with self._async_lock:
AcquireLock(p) ==
    /\ coros[p].pc = "start"
    /\ LockFree(p)
    /\ coros[p].flavour = "async" => running = 0
    /\ IF coros[p].flavour = "sync"
       THEN sync_lock' = p /\ UNCHANGED <<lock, running>>
       ELSE lock' = p /\ running' = p /\ UNCHANGED sync_lock
    /\ coros' = [coros EXCEPT ![p].pc = "locked"]
    /\ UNCHANGED <<kv, now>>
    /\ UNCHANGED HybridVarsOff
    /\ UNCHANGED toolVars

\* Leaving the with block, by its end or by an exception.
ReleaseLock(p) ==
    IF coros[p].flavour = "sync"
    THEN sync_lock' = 0 /\ UNCHANGED <<lock, running>>
    ELSE lock' = 0 /\ running' = 0 /\ UNCHANGED sync_lock

\* get, line 60 (89 for get_async): if key in self._store
GetChecksKey(p) ==
    /\ coros[p].op = "get" /\ coros[p].pc = "locked"
    /\ IF kv[HybridKey].present
       THEN /\ coros' = [coros EXCEPT ![p].pc = "found"]
            /\ UNCHANGED <<lock, sync_lock, running>>
       ELSE /\ coros' = [coros EXCEPT ![p].pc = "done", ![p].result = "None"]
            /\ ReleaseLock(p)
    /\ UNCHANGED <<kv, now>>
    /\ UNCHANGED HybridVarsOff
    /\ UNCHANGED toolVars

\* get, line 61 (90): value, expires_at = self._store[key]
GetReadsEntry(p) ==
    /\ coros[p].op = "get" /\ coros[p].pc = "found"
    /\ IF kv[HybridKey].present
       THEN /\ coros' = [coros EXCEPT ![p].pc = "read", ![p].seen = kv[HybridKey]]
            /\ UNCHANGED <<lock, sync_lock, running>>
       ELSE /\ coros' = [coros EXCEPT ![p].pc = "done", ![p].failed = "KeyError"]
            /\ ReleaseLock(p)
    /\ UNCHANGED <<kv, now>>
    /\ UNCHANGED HybridVarsOff
    /\ UNCHANGED toolVars

\* get, lines 62-64 (91-93): return the value when it has not expired.
GetChecksExpiry(p) ==
    /\ coros[p].op = "get" /\ coros[p].pc = "read"
    /\ IF now < coros[p].seen.expires_at
       THEN /\ coros' = [coros EXCEPT ![p].pc = "done", ![p].result = "value"]
            /\ ReleaseLock(p)
       ELSE /\ coros' = [coros EXCEPT ![p].pc = "expired"]
            /\ UNCHANGED <<lock, sync_lock, running>>
    /\ UNCHANGED <<kv, now>>
    /\ UNCHANGED HybridVarsOff
    /\ UNCHANGED toolVars

\* get, lines 65-69 (94-98): del self._store[key], then return None.
GetDeletesExpired(p) ==
    /\ coros[p].op = "get" /\ coros[p].pc = "expired"
    /\ IF kv[HybridKey].present
       THEN /\ kv' = [kv EXCEPT ![HybridKey] = NoEntry]
            /\ coros' = [coros EXCEPT ![p].pc = "done", ![p].result = "None"]
       ELSE /\ kv' = kv
            /\ coros' = [coros EXCEPT ![p].pc = "done", ![p].failed = "KeyError"]
    /\ ReleaseLock(p)
    /\ UNCHANGED now
    /\ UNCHANGED HybridVarsOff
    /\ UNCHANGED toolVars

\* set_with_ttl_async, lines 77-83: self._store[key] = (value, expires_at)
SetStores(p) ==
    /\ coros[p].op = "set" /\ coros[p].pc = "locked"
    /\ kv' = StorageSetex(kv, HybridKey, StoredFor, "value", now)
    /\ coros' = [coros EXCEPT ![p].pc = "done"]
    /\ ReleaseLock(p)
    /\ UNCHANGED now
    /\ UNCHANGED HybridVarsOff
    /\ UNCHANGED toolVars

\* _cleanup_expired_sync, line 116: the comprehension starts to iterate
\* over self._store.items().
CleanupStartsScan(p) ==
    /\ coros[p].op = "cleanup" /\ coros[p].pc = "locked"
    /\ coros' = [coros EXCEPT ![p].pc = "scanning", ![p].keys = StoreKeys(kv)]
    /\ UNCHANGED <<kv, lock, sync_lock, running, now>>
    /\ UNCHANGED HybridVarsOff
    /\ UNCHANGED toolVars

\* Line 116, the iteration goes on: a dict that changed size since the
\* iteration began raises RuntimeError; else the expired keys are listed.
CleanupEndsScan(p) ==
    /\ coros[p].op = "cleanup" /\ coros[p].pc = "scanning"
    /\ IF StoreKeys(kv) # coros[p].keys
       THEN /\ coros' = [coros EXCEPT ![p].pc = "done", ![p].failed = "RuntimeError"]
            /\ ReleaseLock(p)
       ELSE /\ coros' = [coros EXCEPT ![p].pc = "deleting",
                            ![p].keys = {k \in StoreKeys(kv) : kv[k].expires_at < now}]
            /\ UNCHANGED <<lock, sync_lock, running>>
    /\ UNCHANGED <<kv, now>>
    /\ UNCHANGED HybridVarsOff
    /\ UNCHANGED toolVars

\* Lines 117-118: for key in expired_keys: del self._store[key]
CleanupDeletes(p) ==
    /\ coros[p].op = "cleanup" /\ coros[p].pc = "deleting"
    /\ IF coros[p].keys \subseteq StoreKeys(kv)
       THEN /\ kv' = [k \in DOMAIN kv |-> IF k \in coros[p].keys THEN NoEntry ELSE kv[k]]
            /\ coros' = [coros EXCEPT ![p].pc = "done"]
       ELSE /\ kv' = kv
            /\ coros' = [coros EXCEPT ![p].pc = "done", ![p].failed = "KeyError"]
    /\ ReleaseLock(p)
    /\ UNCHANGED now
    /\ UNCHANGED HybridVarsOff
    /\ UNCHANGED toolVars

\* An hour passes.
HybridHourPasses ==
    /\ now < MaxClock
    /\ now' = now + 1
    /\ UNCHANGED <<kv, coros, lock, sync_lock, running>>
    /\ UNCHANGED HybridVarsOff
    /\ UNCHANGED toolVars

InitHybrid ==
    /\ NoConsensus
    /\ kv = [k \in {HybridKey} |-> Entry("value", StoredFor)]
    /\ coros = Accessors
    /\ lock = 0 /\ sync_lock = 0 /\ running = 0
    /\ gen = <<>> /\ shared = <<>> /\ calls = <<>>

NextHybrid ==
    \/ \E p \in DOMAIN Accessors :
          \/ AcquireLock(p)
          \/ GetChecksKey(p)
          \/ GetReadsEntry(p)
          \/ GetChecksExpiry(p)
          \/ GetDeletesExpired(p)
          \/ SetStores(p)
          \/ CleanupStartsScan(p)
          \/ CleanupEndsScan(p)
          \/ CleanupDeletes(p)
    \/ HybridHourPasses

SpecHybrid == InitHybrid /\ [][NextHybrid]_vars

\* ------------------------------------------- several calls on one tool
\* Two execute calls on the same ConsensusTool in one event loop, every
\* provider call answered, without cross-feedback and continuation: what
\* the calls read from the attributes of the tool.
SharedCallIds == 1..MaxCalls
SharedRosters == CanonicalRosters(MaxContRoster)

\* The prompt of call c.
PromptOf(c) == [text |-> "Q", call |-> c]

NoSharedCall == [pc |-> "idle", prompt |-> PromptOf(0), models |-> <<>>,
                 tasks |-> <<>>, report |-> NoReport]

SharedVarsOff == <<kv, coros, lock, sync_lock, running, gen, now>>

\* execute, lines 313-368, from its start to the asyncio.wait: it keeps
\* the prompt and the roster on the tool and makes a task per roster entry.
SharedExecute(c, models) ==
    /\ calls[c].pc = "idle"
    /\ shared' = [initial_prompt |-> PromptOf(c), models_to_consult |-> models]
    /\ calls' = [calls EXCEPT ![c] =
                    [pc |-> "waiting", prompt |-> PromptOf(c), models |-> models,
                     tasks |-> [i \in 1..Len(models) |->
                                  [state |-> "created", prompt |-> PromptOf(0)]],
                     report |-> NoReport]]
    /\ UNCHANGED SharedVarsOff
    /\ UNCHANGED toolVars

\* _consult_model, lines 709-815, as the loop starts the task: the prompt
\* is self.initial_prompt (line 732).  The tasks of a call start in the
\* order of their creation.
SharedConsultStarts(c, i) ==
    /\ calls[c].pc = "waiting"
    /\ i \in 1..Len(calls[c].tasks)
    /\ calls[c].tasks[i].state = "created"
    /\ \A j \in 1..(i - 1) : calls[c].tasks[j].state # "created"
    /\ calls' = [calls EXCEPT ![c].tasks[i] =
                    [state |-> "running", prompt |-> shared.initial_prompt]]
    /\ UNCHANGED shared
    /\ UNCHANGED SharedVarsOff
    /\ UNCHANGED toolVars

\* The provider answers.
SharedConsultReturns(c, i) ==
    /\ calls[c].pc = "waiting"
    /\ i \in 1..Len(calls[c].tasks)
    /\ calls[c].tasks[i].state = "running"
    /\ calls' = [calls EXCEPT ![c].tasks[i].state = "done"]
    /\ UNCHANGED shared
    /\ UNCHANGED SharedVarsOff
    /\ UNCHANGED toolVars

\* execute, lines 368-694, once every task is done: the report takes
\* initial_prompt and models_consulted from the tool (lines 544-545).
SharedPhaseCompletes(c) ==
    /\ calls[c].pc = "waiting"
    /\ \A i \in 1..Len(calls[c].tasks) : calls[c].tasks[i].state = "done"
    /\ calls' = [calls EXCEPT
                    ![c].pc = "returned",
                    ![c].report = [status |-> "consensus_complete",
                                   initial_prompt |-> shared.initial_prompt,
                                   models_consulted |-> Len(shared.models_to_consult),
                                   successful_responses |-> Len(calls[c].tasks)]]
    /\ UNCHANGED shared
    /\ UNCHANGED SharedVarsOff
    /\ UNCHANGED toolVars

\* Lines 115-120: the tool as __init__ leaves it.
InitShared ==
    /\ NoConsensus
    /\ kv = <<>> /\ coros = <<>> /\ lock = 0 /\ sync_lock = 0 /\ running = 0
    /\ gen = <<>>
    /\ shared = [initial_prompt |-> PromptOf(0), models_to_consult |-> <<>>]
    /\ calls = [c \in SharedCallIds |-> NoSharedCall]

NextShared ==
    \/ \E c \in SharedCallIds, models \in SharedRosters : SharedExecute(c, models)
    \/ \E c \in SharedCallIds, i \in 1..MaxContRoster : SharedConsultStarts(c, i)
    \/ \E c \in SharedCallIds, i \in 1..MaxContRoster : SharedConsultReturns(c, i)
    \/ \E c \in SharedCallIds : SharedPhaseCompletes(c)

SpecShared == InitShared /\ [][NextShared]_vars

\* ===================================================== the claims, Spec
\* The roster positions whose initial task returned a success, in order.
SuccessIdx ==
    SetToSortedSeq({i \in 1..Len(initial_tasks) :
        initial_tasks[i].state = "done" /\ initial_tasks[i].result.status = "success"})

\* The roster positions execute recorded an exception for, in order.
ExceptionIdx ==
    SetToSortedSeq({i \in 1..Len(ordered_responses) : IsException(ordered_responses[i])})

\* execute has gone past its first asyncio.wait.
InitialPhaseOver == pc \in {"wait_refinement", "returned"} /\ initial_tasks # <<>>

\* execute has returned a consensus report.
Reported == pc = "returned" /\ report.status = "consensus_complete"

\* The successful refinement results for a model name.
SuccessfulRefinements(m) ==
    {j \in 1..Len(refinement_tasks) :
        /\ refinement_tasks[j].state = "done"
        /\ refinement_tasks[j].result.status = "success"
        /\ refinement_tasks[j].model = m}

\* C1: whatever the order in which the initial tasks complete, the initial
\* phase yields one outcome per roster entry, the outcome at index i is that
\* of roster entry i, and `responses` and `failed_models` list their models
\* in roster order.
C1_OutcomesInRosterOrder ==
    InitialPhaseOver =>
        /\ Len(ordered_responses) = Len(Roster)
        /\ \A i \in 1..Len(Roster) :
              /\ ordered_responses[i].model = Roster[i]
              /\ initial_tasks[i].state = "done" => ordered_responses[i] = initial_tasks[i].result
              /\ initial_tasks[i].state # "done" => IsException(ordered_responses[i])
        /\ Len(failed_models) = Len(ExceptionIdx)
        /\ \A k \in 1..Len(failed_models) : failed_models[k].model = Roster[ExceptionIdx[k]]
        /\ Reported =>
              /\ report.failed_models = failed_models
              /\ Len(report.responses) = Len(SuccessIdx)
              /\ \A k \in 1..Len(report.responses) :
                    report.responses[k].model = Roster[SuccessIdx[k]]

\* C1 witness: three different models, the first still running when the two
\* after it have completed, so completion order is not roster order.
C1_Witness ==
    /\ Reported
    /\ Roster = <<"A", "B", "C">>
    /\ Len(initial_tasks) = 3
    /\ initial_tasks[1].state = "cancelled"
    /\ Len(report.responses) = 2
    /\ Len(report.failed_models) = 1

\* C2 (the claim as stated): with some provider calls raising and the others
\* succeeding, successful_responses counts the successes, failed_models has
\* one entry per model that raised, with its name, its error text and phase
\* "initial", and no failed model is among the responses.
C2_RaisedModelsAreFailedModels ==
    Reported =>
        LET raised == SetToSortedSeq({i \in 1..Len(initial_tasks) :
                          /\ initial_tasks[i].state = "done"
                          /\ initial_tasks[i].result.status = "error"
                          /\ initial_tasks[i].result.error \in ProviderErrors})
        IN  /\ report.successful_responses = Len(SuccessIdx)
            /\ \A n \in 1..Len(raised) :
                  \E k \in 1..Len(report.failed_models) :
                     report.failed_models[k] =
                        [model |-> Roster[raised[n]],
                         error |-> initial_tasks[raised[n]].result.error,
                         phase |-> "initial"]
            /\ \A k \in 1..Len(report.responses) :
                  report.responses[k].status = "success"

\* C3: a task still pending when the initial deadline elapses is cancelled and
\* reported in failed_models as a timeout naming its model; the tasks that
\* finished keep their results; execute goes on and leaves no task waited for.
C3_PendingAtDeadlineIsTimeoutFailure ==
    InitialPhaseOver =>
        \A i \in 1..Len(initial_tasks) :
           /\ initial_tasks[i].state \in {"done", "cancelled"}
           /\ initial_tasks[i].state = "cancelled" =>
                 /\ initial_tasks[i].result = NoResult
                 /\ \E k \in 1..Len(failed_models) :
                       failed_models[k] =
                          [model |-> Roster[i],
                           error |-> <<"Phase timeout exceeded", Roster[i]>>,
                           phase |-> "initial"]
           /\ initial_tasks[i].state = "done" =>
                 /\ ordered_responses[i] = initial_tasks[i].result
                 /\ \E k \in 1..Len(successful_initial) :
                       successful_initial[k] = initial_tasks[i].result
                 /\ (Reported /\ initial_tasks[i].result.status = "success") =>
                       \E k \in 1..Len(report.responses) :
                          report.responses[k].model = Roster[i]

\* C3 witness: execute has returned with one model reported as timed out and
\* another one's answer kept, while the slow generate call is still running.
C3_Witness ==
    /\ Reported
    /\ \E i \in 1..Len(initial_tasks) : initial_tasks[i].state = "cancelled"
    /\ Len(report.responses) >= 1
    /\ Len(report.failed_models) >= 1
    /\ abandoned > 0

\* C4 (the claim as stated): a failure that concerns one model never turns
\* into the whole-call `status: error`.
PerModelFailures == {"provider lookup"}

C4_PerModelFailureNeverFailsTheCall ==
    (pc = "returned" /\ report.status = "error") => report.error \notin PerModelFailures

\* C7: with fewer than two initial successes no refinement request is sent
\* and every response carries its initial text, cross-feedback enabled or not.
C7_NoRefinementBelowTwoSuccesses ==
    (InitialPhaseOver /\ Len(SuccessIdx) < 2) =>
        /\ Reported
        /\ refinement_tasks = <<>>
        /\ \A n \in 1..Len(sent) : sent[n].phase # "refinement"
        /\ Len(report.responses) = Len(SuccessIdx)
        /\ \A k \in 1..Len(report.responses) :
              report.responses[k].response = initial_tasks[SuccessIdx[k]].result.response

\* C7 witness: cross-feedback is on, one model succeeded and another one's
\* error result sits next to it in successful_initial.
C7_Witness ==
    /\ Reported
    /\ request.enable_cross_feedback
    /\ Len(SuccessIdx) = 1
    /\ Len(successful_initial) = 2
    /\ Len(report.responses) = 1

\* C8: a roster entry whose initial result was an error or a timeout gets no
\* refinement task, and nothing of it is among the peer answers given to the
\* others.
C8_FailedEntriesExcludedFromRefinement ==
    (pc \in {"wait_refinement", "returned"} /\ refinement_tasks # <<>>) =>
        /\ Len(refinement_tasks) = Len(SuccessIdx)
        /\ \A k \in 1..Len(refinement_tasks) :
              /\ refinement_tasks[k].initial_response = initial_tasks[SuccessIdx[k]].result
              /\ \A j \in 1..Len(refinement_tasks[k].other_responses) :
                    \E i \in Range(SuccessIdx) :
                       refinement_tasks[k].other_responses[j] = initial_tasks[i].result
        /\ \A n \in 1..Len(sent) :
              sent[n].phase = "refinement" =>
                 \A j \in 1..Len(sent[n].prompt.others) :
                    \E i \in Range(SuccessIdx) :
                       /\ sent[n].prompt.others[j].model = Roster[i]
                       /\ sent[n].prompt.others[j].response = initial_tasks[i].result.response

\* C8 witness: of three different models one returned an error, and a
\* feedback prompt quoting a peer has gone out to one of the other two.
C8_Witness ==
    /\ Roster = <<"A", "B", "C">>
    /\ Len(initial_tasks) = 3
    /\ \E i \in 1..3 : initial_tasks[i].state = "done" /\ initial_tasks[i].result.status = "error"
    /\ \E n \in 1..Len(sent) : sent[n].phase = "refinement" /\ Len(sent[n].prompt.others) = 1

\* C9: for a model with a successful refinement the reported text is the
\* refined text and the totals are the sums of both phases, each phase's own
\* value staying in the metadata.  (Refinements are matched by model name.)
C9_RefinedTextAndSummedTotals ==
    Reported =>
        /\ Len(report.responses) = Len(SuccessIdx)
        /\ \A k \in 1..Len(report.responses) :
              LET r == report.responses[k]
                  init == initial_tasks[SuccessIdx[k]].result
              IN  SuccessfulRefinements(r.model) # {} =>
                     \E j \in SuccessfulRefinements(r.model) :
                        LET ref == refinement_tasks[j].result
                        IN  /\ r.response = ref.response
                            /\ r.response[2] = "refinement"
                            /\ r.metadata.total_input_tokens =
                                  init.metadata.input_tokens + ref.metadata.input_tokens
                            /\ r.metadata.total_output_tokens =
                                  init.metadata.output_tokens + ref.metadata.output_tokens
                            /\ r.metadata.total_response_time =
                                  init.metadata.response_time + ref.metadata.response_time
                            /\ r.metadata.input_tokens_initial = init.metadata.input_tokens
                            /\ r.metadata.output_tokens_initial = init.metadata.output_tokens
                            /\ r.metadata.initial_response_time = init.metadata.response_time
                            /\ r.metadata.input_tokens_refinement = ref.metadata.input_tokens
                            /\ r.metadata.output_tokens_refinement = ref.metadata.output_tokens
                            /\ r.metadata.refinement_response_time = ref.metadata.response_time

\* C9 witness: a reported answer is a refined text, and the two phases of
\* that model used different amounts of tokens.
C9_Witness ==
    /\ Reported
    /\ \E k \in 1..Len(report.responses) :
          /\ report.responses[k].response[2] = "refinement"
          /\ report.responses[k].metadata.input_tokens_initial
                # report.responses[k].metadata.input_tokens_refinement

\* C10: a model whose refinement failed or was cut off by the refinement
\* deadline stays in `responses` with its initial text and is not added to
\* failed_models.  (A model counts as refined when a refinement under its
\* name succeeded.)
C10_RefinementFailureKeepsInitial ==
    Reported =>
        /\ Len(report.responses) = Len(SuccessIdx)
        /\ Len(report.failed_models) = Len(ExceptionIdx)
        /\ \A k \in 1..Len(report.failed_models) : report.failed_models[k].phase = "initial"
        /\ \A k \in 1..Len(report.responses) :
              LET r == report.responses[k]
                  init == initial_tasks[SuccessIdx[k]].result
              IN  /\ r.model = init.model
                  /\ SuccessfulRefinements(r.model) = {} =>
                        /\ r.response = init.response
                        /\ r.metadata.total_response_time = init.metadata.response_time
                        /\ r.metadata.input_tokens = init.metadata.input_tokens
                        /\ r.metadata.output_tokens = init.metadata.output_tokens

\* C10 witness: one refinement call raised, another was cancelled at the
\* refinement deadline, and both models are reported with their initial text.
C10_Witness ==
    /\ Reported
    /\ \E j \in 1..Len(refinement_tasks) :
          /\ refinement_tasks[j].state = "done"
          /\ refinement_tasks[j].result.status = "error"
          /\ SuccessfulRefinements(refinement_tasks[j].model) = {}
    /\ \E j \in 1..Len(refinement_tasks) :
          /\ refinement_tasks[j].state = "cancelled"
          /\ SuccessfulRefinements(refinement_tasks[j].model) = {}
    /\ Len(report.responses) = 3
    /\ \A k \in 1..Len(report.responses) :
          SuccessfulRefinements(report.responses[k].model) = {} =>
             report.responses[k].response[2] = "initial"
\* A failed_models entry that reports a timeout.
IsTimeoutEntry(entry) == entry.error \in {<<"Phase timeout exceeded", m>> : m \in Models}

\* C11 (the claim as stated): a model that ran out of time and a model whose
\* provider call was rejected each have a failure entry, and the two entries
\* differ in kind: the one is a timeout entry, the other is not.
C11_TimeoutDistinctFromRejection ==
    Reported =>
        \A i \in 1..Len(initial_tasks) :
           /\ initial_tasks[i].state = "cancelled" =>
                 \E k \in 1..Len(report.failed_models) :
                    /\ report.failed_models[k].model = Roster[i]
                    /\ IsTimeoutEntry(report.failed_models[k])
           /\ (initial_tasks[i].state = "done"
                  /\ initial_tasks[i].result.status = "error"
                  /\ initial_tasks[i].result.error \in ProviderErrors) =>
                 \E k \in 1..Len(report.failed_models) :
                    /\ report.failed_models[k].model = Roster[i]
                    /\ ~IsTimeoutEntry(report.failed_models[k])

C13_OneRequestPerEntryAndPhase ==
    /\ \A n, m \in 1..Len(sent) :
          (n # m /\ sent[n].phase = sent[m].phase) => sent[n].index # sent[m].index
    /\ \A n \in 1..Len(sent) :
          /\ sent[n].index \in 1..Len(Roster)
          /\ sent[n].phase = "initial" => sent[n].model = Roster[sent[n].index]
    /\ \A i \in 1..Len(initial_tasks) :
          initial_tasks[i].state \in {"done", "cancelled"} =>
             Cardinality({n \in 1..Len(sent) :
                             sent[n].phase = "initial" /\ sent[n].index = i}) <= 1

\* C13 witness: one model's call raised, another was cut off by the
\* deadline, execute has returned, and each was sent one request.
C13_Witness ==
    /\ Reported
    /\ \E i \in 1..Len(initial_tasks) :
          initial_tasks[i].state = "done" /\ initial_tasks[i].result.status = "error"
          /\ initial_tasks[i].result.error \in ProviderErrors
    /\ \E i \in 1..Len(initial_tasks) : initial_tasks[i].state = "cancelled"
    /\ Cardinality({n \in 1..Len(sent) : sent[n].phase = "initial"}) = Len(Roster)

\* C14 (the claim as stated): a call in which no model succeeds returns a
\* report that lists every roster model in failed_models.
C14_AllFailListsEveryModel ==
    (pc = "returned" /\ initial_tasks # <<>> /\ Len(SuccessIdx) = 0) =>
        /\ Reported
        /\ \A i \in 1..Len(Roster) :
              \E k \in 1..Len(report.failed_models) : report.failed_models[k].model = Roster[i]

\* C19 (the claim as stated): a request whose roster holds the same model
\* spec twice is refused before any model is consulted.
C19_DuplicateSpecsRejected ==
    (\E i, j \in 1..Len(Roster) : i # j /\ Roster[i] = Roster[j]) =>
        /\ initial_tasks = <<>>
        /\ sent = <<>>
        /\ report.status \notin {"none", "consensus_complete"}

\* C24: every generate request that is sent, in the initial or in the
\* refinement phase, carries a prompt that passed the size check (after at
\* most one truncation of the history), and a model whose prompt is still
\* over the limit is sent no request.
C24_EverySentPromptPassedSizeCheck ==
    \A n \in 1..Len(sent) : ~Oversize(sent[n].prompt)

\* The results of the refinement tasks that finished, in task order.
RefinedResults ==
    LET doneIdx == SetToSortedSeq({k \in 1..Len(refinement_tasks) :
                                      refinement_tasks[k].state = "done"})
    IN  [n \in 1..Len(doneIdx) |-> refinement_tasks[doneIdx[n]].result]

\* C25: the responses of the report are the same in whatever order the
\* refinement tasks completed: building them again from the same initial
\* and refined results, in any order of completion, gives the reported ones.
C25_ResponsesIndependentOfCompletionOrder ==
    (Reported /\ refinement_tasks # <<>>) =>
        \A refined_responses \in Orderings(RefinedResults) :
           FinalResponses(successful_initial, refined_responses) = report.responses

\* A prompt that is the given text and nothing else.
Verbatim(text) ==
    [kind |-> "custom", template |-> text, history |-> NoHistory,
     question |-> [text |-> "", embedded |-> <<>>], own |-> NoText, others |-> <<>>]

\* C26: with a custom feedback template, the prompt of every refinement
\* request is that template as given: no question, no answer of the model
\* or of a peer is filled in or added.
C26_CustomTemplateSentVerbatim ==
    request.cross_feedback_prompt # "" =>
        \A n \in 1..Len(sent) :
           sent[n].phase = "refinement" =>
              sent[n].prompt = Verbatim(request.cross_feedback_prompt)

\* C26 witness: a call with a custom template sent a refinement request to
\* each of three models and returned.
C26_Witness ==
    /\ Reported
    /\ request.cross_feedback_prompt # ""
    /\ Cardinality({n \in 1..Len(sent) : sent[n].phase = "refinement"}) = 3

\* C28: in every report each roster entry is accounted for once, as a
\* response or as a failure: models_consulted = successful_responses + the
\* number of entries of failed_models.
C28_EveryRosterEntryAccountedFor ==
    Reported =>
        report.models_consulted
            = report.successful_responses + Len(report.failed_models)

\* C30: once a phase has timed out and its pending tasks are cancelled, no
\* generate call the phase started is still running on a pool thread.
C30_NoGenerateCallOutlivesItsPhase ==
    pc \in {"wait_refinement", "returned"} => abandoned = 0

\* C33: the remaining_turns of a continuation offer is the number of turns
\* the thread can still take after the call, MAX_CONVERSATION_TURNS less the
\* turns it holds, and is at least 1.
C33_RemainingTurnsIsWhatTheThreadTakes ==
    (Reported /\ report.status = "consensus_complete"
              /\ report.continuation_offer # NoOffer) =>
        LET offer == report.continuation_offer
        IN  /\ ThreadExists(offer.continuation_id)
            /\ offer.remaining_turns
                  = MAX_CONVERSATION_TURNS - Len(threads[offer.continuation_id].turns)
            /\ offer.remaining_turns >= 1

\* ================================================ the claims, SpecClock
\* C29: with more models than can call their providers at a time, a model
\* whose call would end within the timeout resolved for it is not reported
\* as timed out because it had to wait for a slot: no task that started
\* late and was cut off before its own timeout had run is a timeout failure.
C29_WaitingForASlotIsNoTimeout ==
    Reported =>
        \A i \in 1..Len(initial_tasks) :
           ~ /\ ordered_responses[i] = PhaseTimeoutError(Roster[i])
             /\ initial_tasks[i].started > 0
             /\ now - initial_tasks[i].started < CallTimeout(i)

\* ============================================= the claims, SpecDeclared
\* C34: the timeout resolved for a model is a positive number of seconds,
\* whatever the capabilities of the model hold: as the result of a direct
\* call of _get_model_timeout and as the value a call caches and uses.
C34_ResolvedTimeoutIsPositive ==
    /\ probe.op = "model" => probe.timeout > 0
    /\ \A m \in DOMAIN timeout_cache : timeout_cache[m] > 0

\* =============================================== the claims, SpecMemory
\* add_turn returned True to coroutine c.
Confirmed(c) == coros[c].pc = "done" /\ coros[c].result

\* The hour at which a thread expires: its last save refreshed the expiry.
LastExpiry(thread_id) ==
    LET saves == {coros[c].saved_at : c \in {d \in DOMAIN coros :
                      Confirmed(d) /\ coros[d].thread_id = thread_id}}
        last == CHOOSE t \in saves \cup {0} : \A u \in saves : u <= t
    IN  last + CONVERSATION_TIMEOUT_HOURS

\* C35: once add_turn has returned True for a turn, every read of the thread
\* before the thread expires finds the turn at the position it was given,
\* also when the add_turn calls on the thread were under way together.
C35_ConfirmedTurnStays ==
    \A c \in DOMAIN coros :
       (Confirmed(c) /\ now < LastExpiry(coros[c].thread_id)) =>
          LET read == get_thread(coros[c].thread_id)
          IN  /\ read.found
              /\ Len(read.turns) >= coros[c].pos
              /\ read.turns[coros[c].pos] = c

\* Two add_turn calls on one thread were under way together, both returned
\* True and a reader finds both turns.
C35_Witness ==
    \E c, d \in DOMAIN coros :
       /\ c # d /\ Confirmed(c) /\ Confirmed(d)
       /\ coros[c].thread_id = coros[d].thread_id
       /\ d \in coros[c].with
       /\ get_thread(coros[c].thread_id).found
       /\ {c, d} \subseteq Range(get_thread(coros[c].thread_id).turns)

\* C36: no stored thread holds more than MAX_CONVERSATION_TURNS turns, and
\* an add_turn that finds its thread full, missing or expired returns False
\* and leaves what a reader gets of the thread as it was.
C36_FullOrMissingThreadRefusesTurn ==
    /\ [](\A k \in DOMAIN kv : Len(kv[k].value) <= MAX_CONVERSATION_TURNS)
    /\ [][\A c \in DOMAIN coros, k \in DOMAIN kv :
            (/\ coros[c].pc = "scheduled" /\ coros'[c].pc # "scheduled"
             /\ coros[c].thread_id = k
             /\ \/ ~get_thread(k).found
                \/ Len(get_thread(k).turns) >= MAX_CONVERSATION_TURNS) =>
               /\ coros'[c].pc = "done" /\ ~coros'[c].result
               /\ get_thread(k)' = get_thread(k)]_vars

\* add_turn has returned False on a full thread that has not expired.
C36_Witness ==
    \E c \in DOMAIN coros :
       /\ coros[c].pc = "done" /\ ~coros[c].result
       /\ coros[c].thread_id = "stored"
       /\ get_thread("stored").found
       /\ Len(get_thread("stored").turns) = MAX_CONVERSATION_TURNS

\* ================================================ the claims, SpecRetry
\* The errors that are no use retrying: the request timed out, was refused
\* for its credentials or is too large.
NotWorthRetrying(error) == error.kind \in {"timeout", "auth", "too_large"}

\* C37: generate_content sends at most 4 requests; after a request that
\* failed with an error that is not retryable, a timeout included, it sends
\* no other, so such a first error makes one request; and the error it
\* raises states the number of requests it sent.
C37_AtMostFourAttemptsOneIfNotRetryable ==
    /\ gen.requests <= 4
    /\ \A i \in 1..Len(gen.errors) :
          NotWorthRetrying(gen.errors[i]) => (gen.pc = "raised" /\ i = Len(gen.errors))
    /\ gen.pc = "raised" =>
          /\ gen.stated = gen.requests
          /\ NotWorthRetrying(gen.errors[1]) => gen.requests = 1

\* A request timed out at the first attempt and the call raised.
C37_Witness ==
    /\ gen.pc = "raised"
    /\ gen.requests = 1
    /\ gen.errors[1].kind = "timeout"

\* =============================================== the claims, SpecHybrid
\* C38: a synchronous accessor or the cleanup thread and an asynchronous
\* accessor are never inside their locked blocks together, and no get and no
\* cleanup ends in an exception.
C38_AccessorsExcludeEachOther ==
    /\ ~(sync_lock # 0 /\ lock # 0)
    /\ \A p \in DOMAIN coros : coros[p].failed = ""

\* =============================================== the claims, SpecShared
\* C31: of two calls on one tool, each sends every model it consults its
\* own prompt, and its report shows its own prompt and the size of its own
\* roster.
C31_ConcurrentCallsKeepTheirOwnPrompt ==
    \A c \in DOMAIN calls :
       /\ \A i \in 1..Len(calls[c].tasks) :
             calls[c].tasks[i].state # "created" =>
                calls[c].tasks[i].prompt = calls[c].prompt
       /\ calls[c].pc = "returned" =>
             /\ calls[c].report.initial_prompt = calls[c].prompt
             /\ calls[c].report.models_consulted = Len(calls[c].models)

\* ================================================= the claims, SpecPool
\* C15 (the claim as stated): at any moment at most 5 generate calls started
\* by the engine are in progress, those of cancelled tasks included.
C15_AtMostFiveGenerateCalls ==
    /\ sem <= SemaphoreSlots
    /\ sem + abandoned <= SemaphoreSlots

\* ============================================= the claims, SpecTimeouts
\* The default the setting of the process gives.
ConfiguredDefault ==
    IF env.set /\ env.numeric /\ env.value > 0 THEN env.value ELSE 600

\* The timeout the configuration of the process gives a model.
ClaimedTimeout(m) ==
    IF m \notin unavailable /\ capabilities[m].kind = "declared"
    THEN capabilities[m].timeout
    ELSE ConfiguredDefault

\* The deadline the configuration of the process gives a list of models.
ClaimedDeadline(models) ==
    IF models = <<>> THEN 60
    ELSE LET timeouts == {ClaimedTimeout(models[i]) : i \in 1..Len(models)}
         IN  (CHOOSE x \in timeouts : \A y \in timeouts : y <= x) + 60

Waiting == pc \in {"wait_initial", "wait_refinement"}

C17_PhaseDeadline ==
    /\ probe.op = "phase" => probe.timeout = ClaimedDeadline(probe.models)
    /\ pc = "wait_initial" => phase_timeout = ClaimedDeadline(Roster)
    /\ pc = "wait_refinement" =>
          phase_timeout = ClaimedDeadline([k \in 1..Len(refinement_tasks) |->
                                              refinement_tasks[k].model])

\* C17 witness: the refinement phase of two models, the first with the larger
\* timeout.
C17_Witness ==
    /\ pc = "wait_refinement"
    /\ Len(refinement_tasks) = 2
    /\ ClaimedTimeout(refinement_tasks[1].model) = 1800
    /\ ClaimedTimeout(refinement_tasks[2].model) = 450
    /\ phase_timeout = 1860

\* C18: within a call the capabilities of a model are looked up at most once,
\* and what a call works with is what the configuration gives at that call,
\* not what an earlier call resolved.
C18_TimeoutsCachedPerCall ==
    /\ \A m \in Models : lookups[m] <= 1
    /\ Waiting =>
          /\ DOMAIN timeout_cache = Range(Roster)
          /\ \A m \in Range(Roster) :
                /\ lookups[m] = 1
                /\ timeout_cache[m] = ClaimedTimeout(m)

\* C18 witness: the second call is in its refinement phase with a model
\* listed twice, looked up once, whose capabilities changed after the first
\* call resolved another timeout for it.
C18_Witness ==
    /\ callsMade = 2
    /\ pc = "wait_refinement"
    /\ Len(Roster) = 2 /\ Roster[1] = Roster[2]
    /\ lookups[Roster[1]] = 1
    /\ probe.op = "reconfigure"
    /\ probe.models[1] = Roster[1]
    /\ probe.timeout \notin {0, timeout_cache[Roster[1]]}

\* =============================================== the claims, SpecBudget
\* The thread can take the turn of the call that continues it.
BudgetLeft(th, id) ==
    /\ id \in 1..Len(th)
    /\ th[id].turns # <<>>
    /\ Len(th[id].turns) < MAX_CONVERSATION_TURNS - 1

\* The step in which execute stores the turn of its call and returns.
PersistsItsTurn ==
    /\ pc \in {"wait_initial", "wait_refinement"}
    /\ pc' = "returned"
    /\ threads' # threads

\* The turn the returned report stands for.
TurnOfReport(r) ==
    [k \in 1..Len(r.responses) |->
        [model |-> r.responses[k].model, response |-> r.responses[k].response]]

\* C20: a call that stores its turn returns a continuation handle: the handle
\* it was given when it continued a thread whose turn budget is not used up
\* (the turn is appended to that thread), else the handle of a thread that
\* did not exist before and now ends with the turn of this call.
C20_HandleOfPersistedTurn ==
    [][PersistsItsTurn =>
          /\ report'.status = "consensus_complete"
          /\ LET id == report'.continuation_offer.continuation_id
             IN  /\ id \in 1..Len(threads')
                 /\ threads'[id].turns[Len(threads'[id].turns)].content = TurnOfReport(report')
                 /\ IF request.continuation_id # None
                       /\ BudgetLeft(threads, request.continuation_id)
                    THEN /\ id = request.continuation_id
                         /\ Len(threads') = Len(threads)
                         /\ Len(threads'[id].turns) = Len(threads[id].turns) + 1
                    ELSE /\ id = Len(threads) + 1
                         /\ Len(threads') = Len(threads) + 1
                         /\ request.continuation_id = None
                 /\ \A other \in 1..Len(threads) : other # id => threads'[other] = threads[other]]_vars

\* C20 witness: a call continued a thread one turn short of the limit of the
\* code, stored its turn there and returned the handle it was given.
C20_Witness ==
    /\ Reported
    /\ request.continuation_id # None
    /\ report.continuation_offer.continuation_id = request.continuation_id
    /\ Len(threads[request.continuation_id].turns) = MAX_CONVERSATION_TURNS - 1
    /\ threads[request.continuation_id].turns[MAX_CONVERSATION_TURNS - 1].content
          = TurnOfReport(report)

\* ============================================== the claims, SpecHistory
\* The answers the thread holds in complete form: in a consensus turn whose
\* metadata has the list of responses, as a dict with model, response and
\* the status "success".
WellFormedAnswers(id) ==
    {[model |-> threads[id].turns[k].model_metadata[j].model,
      response |-> threads[id].turns[k].model_metadata[j].response] :
        <<k, j>> \in {p \in (1..Len(threads[id].turns)) \X (1..2) :
            LET t == threads[id].turns[p[1]]
            IN  /\ t.role = "assistant" /\ t.tool_name = "consensus"
                /\ t.metadata = "dict"
                /\ p[2] \in 1..Len(t.model_metadata)
                /\ t.model_metadata[p[2]] # NotADict
                /\ t.model_metadata[p[2]].model # ""
                /\ t.model_metadata[p[2]].response # NoText
                /\ t.model_metadata[p[2]].status = "success"}}

ContinuesStored == request.continuation_id # None /\ ThreadExists(request.continuation_id)

OtherToolAssistantTurns(id) ==
    {k \in 1..Len(threads[id].turns) :
        /\ threads[id].turns[k].role = "assistant"
        /\ threads[id].turns[k].tool_name # "consensus"}

Latest(S) == CHOOSE k \in S : \A j \in S : j <= k

\* The call came through the server, continues a thread and named no model.
InheritsModel == ContinuesStored /\ request.model # NamedModel

\* C27 as stated: a model name inherited from the thread is the name of the
\* most recent assistant turn of another tool, never one of a consensus
\* turn, and without such a turn no model is inherited.
C27_InheritedFromLatestOtherToolTurn ==
    InheritsModel =>
        LET id == request.continuation_id
        IN  IF OtherToolAssistantTurns(id) = {} THEN request.model = ""
            ELSE request.model \in
                    {"", threads[id].turns[Latest(OtherToolAssistantTurns(id))].model_name}

\* C27 as the code has it: the name comes from the most recent assistant
\* turn of another tool that recorded a model name, never from a consensus
\* turn, and without such a turn no model is inherited.
C27_InheritedFromLatestNamedOtherToolTurn ==
    InheritsModel =>
        LET id == request.continuation_id
            named == {k \in OtherToolAssistantTurns(id) : threads[id].turns[k].model_name # ""}
        IN  IF named = {} THEN request.model = ""
            ELSE request.model = threads[id].turns[Latest(named)].model_name

\* C27 witness: the thread ends with a consensus turn, before it two turns of
\* another tool with different model names; the call inherited the later one.
C27_Witness ==
    /\ Reported
    /\ InheritsModel
    /\ LET turns == threads[request.continuation_id].turns
       IN  /\ Len(turns) >= MaxStoredTurns
           /\ turns[1] = OtherToolTurn("X")
           /\ turns[2] = OtherToolTurn("Y")
           /\ turns[3] = StoredConsensusTurn
    /\ request.model = "Y"

\* =============================================== the claims, SpecBudget
\* The step in which execute returns a report.
ReturnsReport ==
    /\ pc \in {"wait_initial", "wait_refinement"}
    /\ pc' = "returned"
    /\ report'.status = "consensus_complete"

AssistantTurns(turns) == SelectSeq(turns, LAMBDA t : t.role = "assistant")

\* The per-model map of a report: each reported model with its final answer.
AnswerMap(r) ==
    [k \in 1..Len(r.responses) |->
        [model |-> r.responses[k].model, response |-> r.responses[k].response,
         status |-> r.responses[k].status]]

\* C22: a call that returns a report appends exactly one assistant turn to
\* its thread (the thread it continues, else a new one), and the metadata of
\* that turn holds the map from each reported model to its final answer.
C22_OneAssistantTurnPerReport ==
    [][ReturnsReport =>
          \E id \in 1..Len(threads') :
             LET before == IF id \in 1..Len(threads) THEN threads[id].turns ELSE <<>>
                 after == threads'[id].turns
             IN  /\ request.continuation_id # None => id = request.continuation_id
                 /\ request.continuation_id = None => id = Len(threads) + 1
                 /\ Len(AssistantTurns(after)) = Len(AssistantTurns(before)) + 1
                 /\ after[Len(after)].role = "assistant"
                 /\ after[Len(after)].model_metadata = AnswerMap(report')]_vars

\* ================================================ the claims, SpecStore
\* The returned call went as far as add_turn for its assistant turn.
CalledAddTurn ==
    /\ Reported
    /\ final_responses # <<>>
    /\ \/ request.continuation_id = None
       \/ /\ ThreadExists(request.continuation_id)
          /\ threads[request.continuation_id].turns # <<>>
          /\ IF store_ok
             THEN Len(threads[request.continuation_id].turns) < MAX_CONVERSATION_TURNS
             ELSE Len(threads[request.continuation_id].turns) < MAX_CONVERSATION_TURNS - 1

\* C21: when add_turn returns False for the assistant turn of a call, the
\* report of the call is returned as complete and carries no continuation
\* offer.
C21_RefusedTurnMeansNoOffer ==
    (CalledAddTurn /\ ~store_ok) =>
        /\ report.status = "consensus_complete"
        /\ report.continuation_offer = NoOffer

\* =============================================== the claims, SpecBudget
\* The thread the call that has just returned worked on.
ThreadOfLastCall ==
    IF request.continuation_id # None THEN request.continuation_id
    ELSE report.continuation_offer.continuation_id

\* C32: when a call has returned its report, a later call on its thread
\* shows a model that succeeded in it, as its previous response, exactly the
\* final text the report gives for that model.  (Between the two calls the
\* server adds at most a user turn, which _extract_previous_consensus skips.)
C32_PreviousResponseIsReportedText ==
    (pc = "returned" /\ report.status = "consensus_complete" /\ ThreadOfLastCall # None) =>
        \A m \in Models :
           (\E r \in Range(report.responses) : r.model = m) =>
              /\ _build_model_specific_history(m, ThreadOfLastCall).frame = "own"
              /\ \E r \in Range(report.responses) :
                    /\ r.model = m
                    /\ _build_model_specific_history(m, ThreadOfLastCall).entries
                          = <<[model |-> m, response |-> r.response]>>

\* ================================================= the claims, SpecCont
\* A consensus call that continues a stored thread is under way; the thread
\* holds what the earlier calls stored (this call stores its turn at the end).
Continuing ==
    /\ pc \in {"wait_initial", "wait_refinement"}
    /\ request.continuation_id # None
    /\ ThreadExists(request.continuation_id)

\* The consensus turns stored on a thread.
ConsensusTurns(id) ==
    SelectSeq(threads[id].turns,
              LAMBDA t : t.tool_name = "consensus" /\ t.role = "assistant")

\* The models asked by an earlier consensus call on the thread.
EarlierParticipants(id) ==
    UNION {Range(ConsensusTurns(id)[k].asked) : k \in 1..Len(ConsensusTurns(id))}

\* The [model, response] pairs stored by the earlier consensus calls.
StoredAnswers(id) ==
    UNION {Range(ConsensusTurns(id)[k].model_metadata) : k \in 1..Len(ConsensusTurns(id))}

\* The last answer a model stored on the thread: last turn, last position.
LatestAnswer(id, m) ==
    LET turns == ConsensusTurns(id)
        last == CHOOSE k \in 1..Len(turns) :
                   /\ \E a \in Range(turns[k].model_metadata) : a.model = m
                   /\ \A j \in (k + 1)..Len(turns) :
                         \A a \in Range(turns[j].model_metadata) : a.model # m
        meta == turns[last].model_metadata
        pos == CHOOSE n \in 1..Len(meta) :
                   meta[n].model = m /\ \A j \in (n + 1)..Len(meta) : meta[j].model # m
    IN  meta[pos].response

\* Every model answer a prompt carries, wherever it sits in the prompt.
TextsIn(prompt) ==
    {prompt.history.entries[k].response : k \in 1..Len(prompt.history.entries)}
    \cup {prompt.question.embedded[k].response : k \in 1..Len(prompt.question.embedded)}
    \cup {prompt.others[k].response : k \in 1..Len(prompt.others)}
    \cup ({prompt.own} \ {NoText})

\* C5 (the claim as stated): on a continuation, a model that took part in an
\* earlier consensus call on the thread is sent only its own previous answer
\* and none of the other models' answers.
C5_ReturningModelSeesOnlyOwnAnswer ==
    Continuing =>
        \A n \in 1..Len(sent) :
           (sent[n].phase = "initial"
               /\ sent[n].model \in EarlierParticipants(request.continuation_id)) =>
              \A t \in TextsIn(sent[n].prompt) : t[1] = sent[n].model

\* C6 (the claim as stated): on a continuation, a model that did not take
\* part in the earlier calls is sent every answer stored by them, each
\* labelled with the model that produced it.
C6_NewModelSeesEveryStoredAnswer ==
    Continuing =>
        \A i \in 1..Len(initial_tasks) :
           (initial_tasks[i].state # "created"
               /\ Roster[i] \notin EarlierParticipants(request.continuation_id)) =>
              \E n \in 1..Len(sent) :
                 /\ sent[n].phase = "initial" /\ sent[n].index = i
                 /\ \A a \in StoredAnswers(request.continuation_id) :
                       \E k \in 1..Len(sent[n].prompt.history.entries) :
                          /\ sent[n].prompt.history.entries[k].model = a.model
                          /\ sent[n].prompt.history.entries[k].response = a.response

\* C6 (amended): on a continuation, a model that did not take part in the
\* earlier calls and whose prompt is within the size limit is sent the most
\* recently stored answer of every model that has one, once each and labelled
\* with the model that produced it.
C6_NewModelSeesLatestStoredAnswers ==
    (Continuing /\ request.size = "fits") =>
        \A i \in 1..Len(initial_tasks) :
           (initial_tasks[i].state # "created"
               /\ Roster[i] \notin EarlierParticipants(request.continuation_id)) =>
              \E n \in 1..Len(sent) :
                 LET entries == sent[n].prompt.history.entries
                     stored == {a.model : a \in StoredAnswers(request.continuation_id)}
                 IN  /\ sent[n].phase = "initial" /\ sent[n].index = i
                     /\ sent[n].model = Roster[i]
                     /\ {entries[k].model : k \in 1..Len(entries)} = stored
                     /\ Len(entries) = Cardinality(stored)
                     /\ \A k \in 1..Len(entries) :
                           /\ entries[k].response[1] = entries[k].model
                           /\ entries[k].response =
                                 LatestAnswer(request.continuation_id, entries[k].model)

\* C6 witness: the earlier call stored the answers of two models, and a third
\* model asked on the continuation has been sent both.
C6_Witness ==
    /\ Continuing
    /\ request.size = "fits"
    /\ \E n \in 1..Len(sent) :
          /\ sent[n].phase = "initial"
          /\ sent[n].model \notin EarlierParticipants(request.continuation_id)
          /\ sent[n].prompt.history.frame = "all"
          /\ Len(sent[n].prompt.history.entries) = 2
====
